---- MODULE Spec2Model ----
(***************************************************************************)
(* State-machine model of two subsystems of worlds-history-sim-rs:         *)
(*                                                                         *)
(*   - civ-sim/src/history.rs   : HistoryManager (event log + 4 indices)   *)
(*   - simulation/src/*.rs      : the ecosystem Simulation (creatures,     *)
(*                                species registry, tile ecosystems)       *)
(*                                                                         *)
(* f32 quantities are modelled in fixed point (integers, floor division);  *)
(* the scale of each quantity is stated where it is introduced.  Draws     *)
(* from the random generator are nondeterministic choices (\E).            *)
(***************************************************************************)
EXTENDS Integers, Sequences, FiniteSets, TLC

(***************************************************************************)
(* Bounds of the model.                                                    *)
(***************************************************************************)
\* HistoryManager.max_events, scaled down from 100000 (history.rs:261).
MaxEvents == 3
\* Number of record() calls explored.
MaxRecords == 5
\* Number of tick() calls explored.
MaxTick == 12
\* Number of tick() calls explored in the long runs of a single creature.
MaxLongTick == 5020

VARIABLES
    history,        \* the HistoryManager struct (history.rs:242-250)
    hist_pruned,    \* observer: the last record() call ran prune_events
    hist_alt,       \* observer: the recorded stream alternated low/high importance
    sim,            \* the Simulation struct (simulation.rs:52-67)
    random_state,   \* the hasher keys of the species registries of two instances
    probe,          \* the last call of a constructor or accessor and what it returned
    civ,            \* the civ-sim Simulation struct (civ-sim simulation.rs:19-48)
    river,          \* the river World::generate_rivers is tracing (world.rs:480-540)
    research        \* a ResearchState struct (civ-sim technology.rs:1042-1049)

histVars == <<history, hist_pruned, hist_alt>>

ecoVars == <<sim, random_state, probe>>

vars == <<history, hist_pruned, hist_alt, sim, random_state, probe, civ, river, research>>

(***************************************************************************)
(* HistoricalEvent (history.rs:12-77).  An event is a record                *)
(*   [kind, year, nation_a, nation_b, culture_id, religion_id]             *)
(* where an id field the variant does not have is 0.                       *)
(***************************************************************************)
Years == {1, 2}
NationIds == {1, 2}
CultureIds == {1}
ReligionIds == {1}

Ev(k, y, na, nb, c, r) ==
    [kind |-> k, year |-> y, nation_a |-> na, nation_b |-> nb,
     culture_id |-> c, religion_id |-> r]

\* The events handed to record(): a bounded sample of the enum's variants.
EventInputs ==
    { Ev("YearPassed", 1, 0, 0, 0, 0),
      Ev("YearPassed", 2, 0, 0, 0, 0),
      Ev("CultureSpread", 1, 0, 0, 1, 0),
      Ev("NationFounded", 1, 1, 0, 0, 0),
      Ev("NationFounded", 2, 2, 0, 0, 0),
      Ev("WarDeclared", 2, 1, 2, 0, 0),
      Ev("CultureFounded", 1, 0, 0, 1, 0),
      Ev("ReligionFounded", 2, 0, 0, 0, 1),
      Ev("MassConversion", 2, 1, 0, 0, 1) }

\* HistoricalEvent::year
year(e) == e.year

\* HistoricalEvent::importance, for the variants of EventInputs
importance(e) ==
    CASE e.kind = "YearPassed"      -> 0
      [] e.kind = "CultureSpread"   -> 2
      [] e.kind = "NationFounded"   -> 8
      [] e.kind = "WarDeclared"     -> 7
      [] e.kind = "CultureFounded"  -> 7
      [] e.kind = "ReligionFounded" -> 8
      [] e.kind = "MassConversion"  -> 6

\* The nation ids record() files an event under (history.rs:281-309):
\* MassConversion carries a nation_id but is not in the match.
IndexedNations(e) ==
    CASE e.kind = "NationFounded" -> <<e.nation_a>>
      [] e.kind = "WarDeclared"   -> <<e.nation_a, e.nation_b>>
      [] OTHER                    -> <<>>

\* The culture ids record() files an event under (history.rs:312-323).
IndexedCultures(e) ==
    IF e.kind \in {"CultureFounded", "CultureSpread"} THEN <<e.culture_id>> ELSE <<>>

\* The religion ids record() files an event under (history.rs:326-338).
IndexedReligions(e) ==
    IF e.kind \in {"ReligionFounded", "MassConversion"} THEN <<e.religion_id>> ELSE <<>>

\* The nation ids an event carries in its fields (history.rs:12-77).
ReferencedNations(e) ==
    {e.nation_a, e.nation_b} \ {0}

ReferencedCultures(e) == {e.culture_id} \ {0}

ReferencedReligions(e) == {e.religion_id} \ {0}

\* HashMap::clear on an index: no key has positions.
EmptyIndex(keys) == [k \in keys |-> <<>>]

\* map.entry(k).or_insert_with(Vec::new).push(index), for each k of ks in order
RECURSIVE PushAll(_, _, _)
PushAll(map, ks, index) ==
    IF ks = <<>> THEN map
    ELSE PushAll([map EXCEPT ![Head(ks)] = Append(@, index)], Tail(ks), index)

\* SelectSeq with the kept positions: the events of importance > 2, in order
RECURSIVE KeptEvents(_)
KeptEvents(evs) ==
    IF evs = <<>> THEN <<>>
    ELSE IF importance(Head(evs)) > 2
         THEN <<Head(evs)>> \o KeptEvents(Tail(evs))
         ELSE KeptEvents(Tail(evs))

\* The year index rebuilt from the kept events (history.rs:364-370);
\* positions are 0-based as in the code.
RECURSIVE RebuildYears(_, _, _)
RebuildYears(evs, idx, map) ==
    IF idx >= Len(evs) THEN map
    ELSE RebuildYears(evs, idx + 1,
                      [map EXCEPT ![year(evs[idx + 1])] = Append(@, idx)])

\* HistoryManager::new
HistoryNew ==
    [events |-> <<>>,
     events_by_year |-> EmptyIndex(Years),
     events_by_nation |-> EmptyIndex(NationIds),
     events_by_culture |-> EmptyIndex(CultureIds),
     events_by_religion |-> EmptyIndex(ReligionIds),
     total_events |-> 0,
     max_events |-> MaxEvents]

\* Mutant: the three id indices are not cleared by a pruning.
prune_events_stale(h) ==
    LET kept == KeptEvents(h.events) IN
    [h EXCEPT !.events = kept,
              !.events_by_year = RebuildYears(kept, 0, EmptyIndex(Years))]

\* Mutant: the pruning keeps importance >= 2.
prune_events_ge2(h) ==
    LET kept == SelectSeq(h.events, LAMBDA e : importance(e) >= 2) IN
    [h EXCEPT !.events = kept,
              !.events_by_year = RebuildYears(kept, 0, EmptyIndex(Years)),
              !.events_by_nation = EmptyIndex(NationIds),
              !.events_by_culture = EmptyIndex(CultureIds),
              !.events_by_religion = EmptyIndex(ReligionIds)]

\* HistoryManager::prune_events
prune_events(h) ==
    LET kept == KeptEvents(h.events) IN
    [h EXCEPT !.events = kept,
              !.events_by_year = RebuildYears(kept, 0, EmptyIndex(Years)),
              !.events_by_nation = EmptyIndex(NationIds),
              !.events_by_culture = EmptyIndex(CultureIds),
              !.events_by_religion = EmptyIndex(ReligionIds)]

\* HistoryManager::record
record(h0, event) ==
    LET h == IF Len(h0.events) >= h0.max_events THEN prune_events(h0) ELSE h0
        index == Len(h.events)
    IN  [h EXCEPT !.events_by_year = PushAll(@, <<year(event)>>, index),
                  !.events_by_nation = PushAll(@, IndexedNations(event), index),
                  !.events_by_culture = PushAll(@, IndexedCultures(event), index),
                  !.events_by_religion = PushAll(@, IndexedReligions(event), index),
                  !.events = Append(@, event),
                  !.total_events = @ + 1]

\* HistoryManager::get_events_in_year
get_events_in_year(h, y) ==
    [i \in 1..Len(h.events_by_year[y]) |-> h.events[h.events_by_year[y][i] + 1]]

\* HistoryManager::get_events_for_nation
get_events_for_nation(h, n) ==
    [i \in 1..Len(h.events_by_nation[n]) |-> h.events[h.events_by_nation[n][i] + 1]]

\* Variant of get_timeline over start_year..end_year, the last year left out
RECURSIVE get_timeline_exclusive(_, _, _)
get_timeline_exclusive(h, start_year, end_year) ==
    IF start_year >= end_year THEN <<>>
    ELSE (IF start_year \in DOMAIN h.events_by_year
          THEN h.events_by_year[start_year] ELSE <<>>)
         \o get_timeline_exclusive(h, start_year + 1, end_year)

\* HistoryManager::get_timeline, as the 0-based positions in events of the
\* references it returns (history.rs:398-408)
RECURSIVE get_timeline(_, _, _)
get_timeline(h, start_year, end_year) ==
    IF start_year > end_year THEN <<>>
    ELSE (IF start_year \in DOMAIN h.events_by_year
          THEN h.events_by_year[start_year] ELSE <<>>)
         \o get_timeline(h, start_year + 1, end_year)

IsLow(e) == importance(e) <= 2

(***************************************************************************)
(* The ecosystem simulation (simulation/src).                              *)
(*                                                                         *)
(* Fixed point: a gene value g in [0,1] is the integer 10*g (0..10);       *)
(* body_size, speed, sense_range, diet, fertility_threshold,               *)
(* metabolic_rate, drought_tolerance, energy and plant biomass are in      *)
(* thousandths; temperatures are whole degrees, rainfall whole mm;         *)
(* health is in 1/100000 (1.0 = 100000).                                   *)
(***************************************************************************)

\* genetics.rs: GENE_COUNT and the gene indices
GENE_COUNT == 14
BODY_SIZE == 0
SPEED == 1
SENSE_RANGE == 2
DIET == 3
COLD_TOLERANCE == 4
HEAT_TOLERANCE == 5
CAMOUFLAGE == 6
AGGRESSION == 7
LONGEVITY == 8
FERTILITY == 9
OFFSPRING_COUNT == 10
ENERGY_EFFICIENCY == 11
WATER_NEED == 12
LEG_STRENGTH == 13

Genes == 0..(GENE_COUNT - 1)

\* A genome from the list of its 14 gene values.
Genome(s) == [i \in Genes |-> s[i + 1]]

Min(a, b) == IF a < b THEN a ELSE b
Max(a, b) == IF a > b THEN a ELSE b
Clamp(v, lo, hi) == Max(lo, Min(v, hi))
Abs(v) == IF v < 0 THEN -v ELSE v
Signum(v) == IF v > 0 THEN 1 ELSE IF v < 0 THEN -1 ELSE 0

\* Phenotype::from_genome
from_genome(g) ==
    [body_size |-> 200 + g[BODY_SIZE] * 480,
     speed |-> 300 + g[SPEED] * 270,
     sense_range |-> 1000 + g[SENSE_RANGE] * 700,
     diet |-> g[DIET] * 100,
     cold_tolerance |-> -35 + g[COLD_TOLERANCE] * 4,
     heat_tolerance |-> -5 + g[HEAT_TOLERANCE] * 4,
     camouflage |-> g[CAMOUFLAGE] * 100,
     aggression |-> g[AGGRESSION] * 100,
     max_age |-> 50 + g[LONGEVITY] * 45,
     fertility_threshold |-> 30000 + (10 - g[FERTILITY]) * 7000,
     offspring_count |-> 1 + ((g[OFFSPRING_COUNT] * 3) \div 10),
     metabolic_rate |-> 500 + (10 - g[ENERGY_EFFICIENCY]) * 150,
     drought_tolerance |-> g[WATER_NEED] * 100,
     terrain_mobility |-> g[LEG_STRENGTH] * 100]

\* Phenotype::base_energy_cost: body_size * metabolic_rate * 0.3
base_energy_cost(p) == (p.body_size * p.metabolic_rate * 3) \div 10000

\* Phenotype::movement_energy_cost: body_size * speed * 0.15
movement_energy_cost(p) == (p.body_size * p.speed * 15) \div 100000

\* Phenotype::food_value: body_size * 12
food_value(p) == p.body_size * 12

\* Phenotype::is_herbivore: diet < 0.4
is_herbivore(p) == p.diet < 400

\* Phenotype::is_carnivore: diet > 0.6
is_carnivore(p) == p.diet > 600

\* The sum over the genes of (a - b)^2, in hundredths (gene values in tenths).
SumSq(a, b) ==
    LET RECURSIVE Acc(_)
        Acc(i) == IF i = GENE_COUNT THEN 0
                  ELSE (a[i] - b[i]) * (a[i] - b[i]) + Acc(i + 1)
    IN Acc(0)

\* Genome::distance(a, b) > t, with t in hundredths:
\* sqrt(sum / GENE_COUNT) > t  <=>  sum > GENE_COUNT * t^2
DistanceAbove(a, b, t) ==
    IF t < 0 THEN TRUE ELSE SumSq(a, b) * 100 > GENE_COUNT * t * t

\* Genome::distance(a, b) < 0.7 * t, with t in hundredths
DistanceBelow07(a, b, t) ==
    IF t <= 0 THEN FALSE ELSE SumSq(a, b) * 10000 < GENE_COUNT * 49 * t * t

(***************************************************************************)
(* species.rs: Species and SpeciesRegistry.  The registry's HashMap is the *)
(* sequence of the species by id (ids are handed out 1, 2, ...); a Species *)
(* is [id, ancestor_id, representative_genome, population, total_born,     *)
(* total_died, appeared_tick, extinct_tick, peak_population,               *)
(* generation_sum]; None is 0 for ancestor_id and -1 for extinct_tick.     *)
(***************************************************************************)
NoTick == -1
NoAncestor == 0

\* Species::new
SpeciesNew(id, ancestor_id, genome, tick) ==
    [id |-> id,
     ancestor_id |-> ancestor_id,
     representative_genome |-> genome,
     population |-> 0,
     total_born |-> 0,
     total_died |-> 0,
     appeared_tick |-> tick,
     extinct_tick |-> NoTick,
     peak_population |-> 0,
     generation_sum |-> 0]

\* Species::is_extinct
is_extinct(sp) == sp.extinct_tick # NoTick

\* SpeciesRegistry::new
RegistryNew == [species |-> <<>>, next_id |-> 1]

\* Variant of create_species that forgets the ancestor of the new species.
create_species_orphan(reg, ancestor_id, genome, tick) ==
    [species |-> Append(reg.species, SpeciesNew(reg.next_id, NoAncestor, genome, tick)),
     next_id |-> reg.next_id + 1]

\* SpeciesRegistry::create_species; the new id is the old next_id
create_species(reg, ancestor_id, genome, tick) ==
    [species |-> Append(reg.species, SpeciesNew(reg.next_id, ancestor_id, genome, tick)),
     next_id |-> reg.next_id + 1]

HasSpecies(reg, id) == id \in DOMAIN reg.species

\* SpeciesRegistry::record_birth
record_birth(reg, species_id, generation) ==
    IF ~HasSpecies(reg, species_id) THEN reg
    ELSE [reg EXCEPT !.species[species_id] =
            [@ EXCEPT !.population = @ + 1,
                      !.total_born = @ + 1,
                      !.generation_sum = @ + generation,
                      !.peak_population = Max(@, reg.species[species_id].population + 1)]]

\* Variant of record_death that declares a species extinct one death early.
record_death_early(reg, species_id, tick) ==
    IF ~HasSpecies(reg, species_id) THEN reg
    ELSE LET pop == Max(reg.species[species_id].population - 1, 0) IN
         [reg EXCEPT !.species[species_id] =
            [@ EXCEPT !.population = pop,
                      !.total_died = @ + 1,
                      !.extinct_tick = IF pop <= 1 /\ @ = NoTick THEN tick ELSE @]]

\* SpeciesRegistry::record_death (population.saturating_sub(1))
record_death(reg, species_id, tick) ==
    IF ~HasSpecies(reg, species_id) THEN reg
    ELSE LET pop == Max(reg.species[species_id].population - 1, 0) IN
         [reg EXCEPT !.species[species_id] =
            [@ EXCEPT !.population = pop,
                      !.total_died = @ + 1,
                      !.extinct_tick = IF pop = 0 /\ @ = NoTick THEN tick ELSE @]]

\* SpeciesRegistry::check_speciation, threshold in hundredths
registry_check_speciation(reg, genome, species_id, threshold) ==
    IF HasSpecies(reg, species_id)
    THEN DistanceAbove(genome, reg.species[species_id].representative_genome, threshold)
    ELSE FALSE

(***************************************************************************)
(* ecosystem.rs: TileEcosystem, and biome.rs                               *)
(***************************************************************************)
\* BiomeType::max_plant_biomass
max_plant_biomass(biome) ==
    CASE biome = "IceCap" -> 0
      [] biome = "Ocean" -> 0
      [] biome = "Grassland" -> 60000
      [] biome = "Forest" -> 100000
      [] biome = "Taiga" -> 30000
      [] biome = "Tundra" -> 15000
      [] biome = "Desert" -> 5000
      [] biome = "Rainforest" -> 120000

\* BiomeType::plant_growth_rate
plant_growth_rate(biome) ==
    CASE biome = "IceCap" -> 0
      [] biome = "Ocean" -> 0
      [] biome = "Grassland" -> 600
      [] biome = "Forest" -> 850
      [] biome = "Taiga" -> 250
      [] biome = "Tundra" -> 100
      [] biome = "Desert" -> 50
      [] biome = "Rainforest" -> 1000

\* Variant of is_habitable that lets land creatures live on every biome.
is_habitable_all(biome) == biome = biome

\* BiomeType::is_habitable
is_habitable(biome) == biome \notin {"IceCap", "Ocean"}

\* TileEcosystem::new
TileEcosystemNew(max_biomass, growth_rate) ==
    [plant_biomass |-> max_biomass \div 2,
     max_biomass |-> max_biomass,
     growth_rate |-> growth_rate,
     creature_count |-> 0,
     herbivore_count |-> 0,
     carnivore_count |-> 0]

\* Mutant: the growth factor has the wrong sign.
tick_plant_growth_sign(eco) ==
    IF eco.max_biomass <= 0 THEN eco
    ELSE LET growth_factor == ((eco.plant_biomass * 1000) \div eco.max_biomass) - 1000
             growth == -((((eco.growth_rate * (-growth_factor)) \div 1000) * eco.max_biomass) \div 50000)
         IN [eco EXCEPT !.plant_biomass = Min(@ + growth, eco.max_biomass)]

\* TileEcosystem::tick_plant_growth:
\* growth = growth_rate * (1 - plant_biomass/max_biomass) * max_biomass * 0.02
tick_plant_growth(eco) ==
    IF eco.max_biomass <= 0 THEN eco
    ELSE LET growth_factor == 1000 - ((eco.plant_biomass * 1000) \div eco.max_biomass)
             growth == (((eco.growth_rate * growth_factor) \div 1000) * eco.max_biomass) \div 50000
         IN [eco EXCEPT !.plant_biomass = Min(@ + growth, eco.max_biomass)]

\* TileEcosystem::consume_plants (the tile after the call)
consume_plants(eco, amount) ==
    [eco EXCEPT !.plant_biomass = @ - Min(amount, eco.plant_biomass)]

\* TileEcosystem::reset_counts
reset_counts(eco) ==
    [eco EXCEPT !.creature_count = 0, !.herbivore_count = 0, !.carnivore_count = 0]

(***************************************************************************)
(* creature.rs: Creature.  A creature is [id, species_id, genome, x, y,    *)
(* energy, age, health, alive, reproduction_cooldown, target_x, target_y,  *)
(* kills, children_produced, generation]; its phenotype is                 *)
(* from_genome(genome), fixed at construction; a target of None is -1.     *)
(* sub_x, sub_y and activity are display data and are left out.            *)
(***************************************************************************)
NoTarget == -1

Ph(c) == from_genome(c.genome)

\* Creature::new: initial energy = fertility_threshold * 0.6
CreatureNew(id, species_id, genome, x, y, generation) ==
    [id |-> id,
     species_id |-> species_id,
     genome |-> genome,
     x |-> x,
     y |-> y,
     energy |-> (from_genome(genome).fertility_threshold * 6) \div 10,
     age |-> 0,
     health |-> 100000,
     alive |-> TRUE,
     reproduction_cooldown |-> 0,
     target_x |-> NoTarget,
     target_y |-> NoTarget,
     kills |-> 0,
     children_produced |-> 0,
     generation |-> generation]

\* Mutant: no death from old age.
tick_metabolism_ageless(c) ==
    IF ~c.alive THEN c
    ELSE LET age == c.age + 1
             energy == c.energy - base_energy_cost(Ph(c))
             dead == energy <= 0 \/ c.health <= 0
         IN [c EXCEPT !.age = age,
                      !.energy = energy,
                      !.reproduction_cooldown = IF @ > 0 THEN @ - 1 ELSE @,
                      !.alive = ~dead]

\* Creature::tick_metabolism
tick_metabolism(c) ==
    IF ~c.alive THEN c
    ELSE LET age == c.age + 1
             energy == c.energy - base_energy_cost(Ph(c))
             dead == \/ age >= Ph(c).max_age
                     \/ energy <= 0
                     \/ c.health <= 0
         IN [c EXCEPT !.age = age,
                      !.energy = energy,
                      !.reproduction_cooldown = IF @ > 0 THEN @ - 1 ELSE @,
                      !.alive = ~dead]

\* Creature::apply_temperature_stress: stress = gap / 20,
\* health -= stress * 0.05, energy -= stress * 0.5
apply_temperature_stress(c, temperature) ==
    IF ~c.alive THEN c
    ELSE LET cold == IF temperature < Ph(c).cold_tolerance
                     THEN Ph(c).cold_tolerance - temperature ELSE 0
             heat == IF temperature > Ph(c).heat_tolerance
                     THEN temperature - Ph(c).heat_tolerance ELSE 0
         IN [c EXCEPT !.health = @ - 250 * cold - 250 * heat,
                      !.energy = @ - 25 * cold - 25 * heat]

\* Creature::apply_drought_stress: min_rainfall = (1 - drought_tolerance) * 500,
\* stress = (min_rainfall - rainfall) / 500, health -= stress * 0.02,
\* energy -= stress * 0.3
apply_drought_stress(c, rainfall) ==
    IF ~c.alive THEN c
    ELSE LET min_rainfall == (1000 - Ph(c).drought_tolerance) \div 2
             d == min_rainfall - rainfall
         IN IF rainfall < min_rainfall
            THEN [c EXCEPT !.health = @ - 4 * d,
                           !.energy = @ - ((3 * d) \div 5)]
            ELSE c

\* Creature::eat_plants: the amount consumed
eat_plants_consumed(c, available) ==
    IF ~c.alive \/ is_carnivore(Ph(c)) THEN 0
    ELSE LET herbivore_efficiency == 1000 - Ph(c).diet
             max_intake == (Ph(c).body_size * 3 * herbivore_efficiency) \div 1000
         IN Min(available, max_intake)

\* Creature::eat_plants: the creature after the call
eat_plants(c, available) ==
    IF ~c.alive \/ is_carnivore(Ph(c)) THEN c
    ELSE [c EXCEPT !.energy =
            @ + ((eat_plants_consumed(c, available) * (1000 - Ph(c).diet)) \div 1000)]

\* The outcomes of the three gen_bool draws of Creature::hunt.  The detection
\* chance is clamped into [0.1, 0.95] and the success chance into
\* [0.05, 0.95], so every outcome can occur for every pair.
HuntRolls == {"undetected", "success", "fail", "fail_injured"}

\* Creature::hunt: [hunter, prey, killed] after the call
hunt(hunter, prey, roll) ==
    IF ~hunter.alive \/ ~prey.alive \/ Ph(hunter).diet < 200
         \/ roll = "undetected"
    THEN [hunter |-> hunter, prey |-> prey, killed |-> FALSE]
    ELSE IF roll = "success"
    THEN [hunter |-> [hunter EXCEPT
                        !.energy = @ + ((food_value(Ph(prey)) * Ph(hunter).diet) \div 1000),
                        !.kills = @ + 1],
          prey |-> [prey EXCEPT !.alive = FALSE],
          killed |-> TRUE]
    ELSE [hunter |-> [hunter EXCEPT
                        !.energy = @ - 2 * movement_energy_cost(Ph(hunter)),
                        !.health = IF roll = "fail_injured" THEN @ - 10000 ELSE @],
          prey |-> [prey EXCEPT !.energy = @ - movement_energy_cost(Ph(prey))],
          killed |-> FALSE]

\* Creature::can_reproduce
can_reproduce(c) ==
    /\ c.alive
    /\ c.energy > Ph(c).fertility_threshold
    /\ c.reproduction_cooldown = 0
    /\ c.age > 10

\* The draws of one Genome::crossover call: the crossover point, the genes
\* blended and one mutated gene with its delta (a bounded sample of them:
\* the blend is none or all genes, at most one gene mutates, by +-0.1).
CrossoverDraws ==
    [point : {1, 7, 13},
     blend : BOOLEAN,
     mutate : BOOLEAN,
     mut_gene : {CAMOUFLAGE},
     delta : {-1, 1}]

\* Genome::crossover under the draws d
crossover(parent_a, parent_b, d) ==
    [i \in Genes |->
        LET base == IF i < d.point THEN parent_a[i] ELSE parent_b[i]
            blended == IF d.blend THEN (parent_a[i] + parent_b[i]) \div 2 ELSE base
        IN IF d.mutate /\ d.mut_gene = i THEN Clamp(blended + d.delta, 0, 10) ELSE blended]

CrossoverResults(parent_a, parent_b) ==
    {crossover(parent_a, parent_b, d) : d \in CrossoverDraws}

\* The sequences of n child genomes
RECURSIVE ChildGenomes(_, _, _)
ChildGenomes(parent_a, parent_b, n) ==
    IF n = 0 THEN {<<>>}
    ELSE {<<g>> \o rest : g \in CrossoverResults(parent_a, parent_b),
                          rest \in ChildGenomes(parent_a, parent_b, n - 1)}

\* offspring_count of Creature::reproduce
reproduce_count(a, b) ==
    Min(Max((Ph(a).offspring_count + Ph(b).offspring_count) \div 2, 1), 4)

\* Variant of Creature::reproduce that starts no cooldown
reproduce_eager(a, b, next_id, genomes) ==
    IF ~can_reproduce(a) \/ ~can_reproduce(b)
    THEN [parent_a |-> a, parent_b |-> b, offspring |-> <<>>]
    ELSE LET offspring_count == reproduce_count(a, b)
             energy_per_offspring == (Ph(a).fertility_threshold * 3) \div 10
             total_cost == energy_per_offspring * offspring_count
         IN [parent_a |-> [a EXCEPT
                            !.energy = @ - ((total_cost * 6) \div 10),
                            !.children_produced = @ + offspring_count],
             parent_b |-> [b EXCEPT
                            !.energy = @ - ((total_cost * 4) \div 10),
                            !.children_produced = @ + offspring_count],
             offspring |-> [i \in 1..offspring_count |->
                              CreatureNew(next_id + (i - 1), a.species_id, genomes[i],
                                          a.x, a.y, a.generation + 1)]]

\* Creature::reproduce with the child genomes drawn:
\* [parent_a, parent_b, offspring] after the call
reproduce(a, b, next_id, genomes) ==
    IF ~can_reproduce(a) \/ ~can_reproduce(b)
    THEN [parent_a |-> a, parent_b |-> b, offspring |-> <<>>]
    ELSE LET offspring_count == reproduce_count(a, b)
             energy_per_offspring == (Ph(a).fertility_threshold * 3) \div 10
             total_cost == energy_per_offspring * offspring_count
         IN [parent_a |-> [a EXCEPT
                            !.energy = @ - ((total_cost * 6) \div 10),
                            !.reproduction_cooldown = 15 + (Ph(a).max_age \div 10),
                            !.children_produced = @ + offspring_count],
             parent_b |-> [b EXCEPT
                            !.energy = @ - ((total_cost * 4) \div 10),
                            !.reproduction_cooldown = 15 + (Ph(b).max_age \div 10),
                            !.children_produced = @ + offspring_count],
             offspring |-> [i \in 1..offspring_count |->
                              CreatureNew(next_id + (i - 1), a.species_id, genomes[i],
                                          a.x, a.y, a.generation + 1)]]

\* Variant of the target choice without the wrap of the column
DirectionTargets_nowrap(c, world_width, world_height) ==
    LET range == Ph(c).sense_range \div 1000 IN
    {<<c.x + dx, Clamp(c.y + dy, 0, world_height - 1)>> :
        dx \in (-range)..range, dy \in (-range)..range}

\* Creature::choose_direction: the targets the two gen_range draws can give
DirectionTargets(c, world_width, world_height) ==
    LET range == Ph(c).sense_range \div 1000 IN
    {<<(c.x + dx) % world_width, Clamp(c.y + dy, 0, world_height - 1)>> :
        dx \in (-range)..range, dy \in (-range)..range}

\* Creature::choose_direction with the target drawn
choose_direction(c, target) ==
    IF ~c.alive THEN c
    ELSE [c EXCEPT !.target_x = target[1], !.target_y = target[2]]

\* Creature::move_towards_target
move_towards_target(c, world_width, world_height) ==
    IF ~c.alive \/ c.target_x = NoTarget \/ c.target_y = NoTarget THEN c
    ELSE LET tx == c.target_x
             ty == c.target_y
             d1 == tx - c.x
             d2 == d1 + world_width
             d3 == d1 - world_width
             dx == IF Abs(d1) <= Abs(d2) /\ Abs(d1) <= Abs(d3) THEN d1
                   ELSE IF Abs(d2) <= Abs(d3) THEN d2 ELSE d3
             dy == ty - c.y
             nx == (c.x + Signum(dx)) % world_width
             ny == Clamp(c.y + Signum(dy), 0, world_height - 1)
             reached == nx = tx /\ ny = ty
         IN [c EXCEPT !.x = nx,
                      !.y = ny,
                      !.energy = @ - movement_energy_cost(Ph(c)),
                      !.target_x = IF reached THEN NoTarget ELSE @,
                      !.target_y = IF reached THEN NoTarget ELSE @]

(***************************************************************************)
(* simulation.rs: Simulation.  sim is [config, terrain, creatures,         *)
(* ecosystems, species_registry, tick, next_creature_id,                   *)
(* population_history, spatial_index].  terrain and ecosystems map a tile  *)
(* <<x, y>> to its cell; spatial_index maps <<y, x>> to the positions      *)
(* (1-based here, 0-based in the code) of the creatures on the tile.       *)
(***************************************************************************)
Tiles(config) ==
    {<<x, y>> : x \in 0..(config.world_width - 1), y \in 0..(config.world_height - 1)}

\* World::habitable_tiles
habitable_tiles(terrain) ==
    {t \in DOMAIN terrain : is_habitable(terrain[t].biome)}

\* Variant of rebuild_spatial_index that lists the dead creatures too.
rebuild_spatial_index_all(config, creatures) ==
    [k \in {<<t[2], t[1]>> : t \in Tiles(config)} |->
        LET RECURSIVE Collect(_)
            Collect(i) ==
                IF i > Len(creatures) THEN <<>>
                ELSE IF creatures[i].y = k[1] /\ creatures[i].x = k[2]
                     THEN <<i>> \o Collect(i + 1)
                     ELSE Collect(i + 1)
        IN Collect(1)]

\* Simulation::rebuild_spatial_index
rebuild_spatial_index(config, creatures) ==
    [k \in {<<t[2], t[1]>> : t \in Tiles(config)} |->
        LET RECURSIVE Collect(_)
            Collect(i) ==
                IF i > Len(creatures) THEN <<>>
                ELSE IF creatures[i].alive /\ creatures[i].y = k[1] /\ creatures[i].x = k[2]
                     THEN <<i>> \o Collect(i + 1)
                     ELSE Collect(i + 1)
        IN Collect(1)]

\* The creatures of one initial species: each gets a habitable tile and a
\* genome of its own from the generator (simulation.rs:123-132, 142-151).
RECURSIVE AddCreatures(_, _, _, _, _)
AddCreatures(st, species_id, pool, habitable, n) ==
    IF n = 0 THEN {st}
    ELSE UNION {
           AddCreatures(
             [creatures |-> Append(st.creatures,
                              CreatureNew(st.next_creature_id, species_id, g, t[1], t[2], 0)),
              species_registry |-> record_birth(st.species_registry, species_id, 0),
              next_creature_id |-> st.next_creature_id + 1],
             species_id, pool, habitable, n - 1)
           : t \in habitable, g \in pool }

\* n initial species with genomes from pool (simulation.rs:117-133, 136-152)
RECURSIVE AddSpecies(_, _, _, _, _)
AddSpecies(st, pool, habitable, per_species, n) ==
    IF n = 0 THEN {st}
    ELSE UNION {
           UNION { AddSpecies(st2, pool, habitable, per_species, n - 1)
                   : st2 \in AddCreatures(
                        [st EXCEPT !.species_registry =
                            create_species(st.species_registry, NoAncestor, rep, 0)],
                        st.species_registry.next_id, pool, habitable, per_species) }
           : rep \in pool }

\* Simulation::populate_initial_creatures
populate_initial_creatures(config, terrain, herbivores, carnivores) ==
    LET habitable == habitable_tiles(terrain)
        st0 == [creatures |-> <<>>, species_registry |-> RegistryNew, next_creature_id |-> 1]
    IN IF habitable = {} THEN {st0}
       ELSE UNION { AddSpecies(st1, carnivores, habitable, config.creatures_per_species,
                               config.initial_carnivore_species)
                    : st1 \in AddSpecies(st0, herbivores, habitable,
                                         config.creatures_per_species,
                                         config.initial_herbivore_species) }

\* Simulation::new, for the terrain World::generate gave and the genome pools
\* the generator draws the initial genomes from
SimulationNew(config, terrain, herbivores, carnivores) ==
    { [config |-> config,
       terrain |-> terrain,
       creatures |-> st.creatures,
       ecosystems |-> [t \in Tiles(config) |->
                         TileEcosystemNew(max_plant_biomass(terrain[t].biome),
                                          plant_growth_rate(terrain[t].biome))],
       species_registry |-> st.species_registry,
       tick |-> 0,
       next_creature_id |-> st.next_creature_id,
       population_history |-> <<>>,
       spatial_index |-> rebuild_spatial_index(config, st.creatures)]
      : st \in populate_initial_creatures(config, terrain, herbivores, carnivores) }

\* tick(): reset counts and grow plants on every tile (simulation.rs:171-177)
GrowthPhase(ecosystems) ==
    [t \in DOMAIN ecosystems |-> tick_plant_growth(reset_counts(ecosystems[t]))]

\* tick(), phase 1, one creature (simulation.rs:184-206)
MoveCreature(s, tick, c) ==
    IF ~c.alive THEN {c}
    ELSE LET w == s.config.world_width
             h == s.config.world_height
             chosen == IF c.target_x = NoTarget \/ tick % 3 = 0
                       THEN {choose_direction(c, t) : t \in DirectionTargets(c, w, h)}
                       ELSE {c}
         IN { LET m == move_towards_target(c1, w, h)
                  cell == s.terrain[<<m.x, m.y>>]
              IN tick_metabolism(
                   apply_drought_stress(
                     apply_temperature_stress(m, cell.temperature), cell.rainfall))
              : c1 \in chosen }

\* tick(), phase 1 of one creature (simulation.rs:183-203): the creature
\* right after each of the two stress calls, before tick_metabolism
StressSteps(s, tick, c) ==
    IF ~c.alive THEN {}
    ELSE LET w == s.config.world_width
             h == s.config.world_height
             chosen == IF c.target_x = NoTarget \/ tick % 3 = 0
                       THEN {choose_direction(c, t) : t \in DirectionTargets(c, w, h)}
                       ELSE {c}
         IN UNION { LET m == move_towards_target(c1, w, h)
                        cell == s.terrain[<<m.x, m.y>>]
                        heated == apply_temperature_stress(m, cell.temperature)
                    IN {heated, apply_drought_stress(heated, cell.rainfall)}
                    : c1 \in chosen }

\* tick(), phase 1 (simulation.rs:183-207): the creature lists it can leave
RECURSIVE MovementPhase(_, _, _)
MovementPhase(s, tick, i) ==
    IF i > Len(s.creatures) THEN {<<>>}
    ELSE {<<c>> \o rest : c \in MoveCreature(s, tick, s.creatures[i]),
                          rest \in MovementPhase(s, tick, i + 1)}

\* Variant of the counting loop that counts the dead creatures of the store too.
RECURSIVE CountPhase_all(_, _, _)
CountPhase_all(ecosystems, creatures, i) ==
    IF i > Len(creatures) THEN ecosystems
    ELSE LET c == creatures[i] IN
         CountPhase_all(
           [ecosystems EXCEPT ![<<c.x, c.y>>] =
               [@ EXCEPT !.creature_count = @ + 1,
                         !.herbivore_count = IF is_herbivore(Ph(c)) THEN @ + 1 ELSE @,
                         !.carnivore_count = IF is_carnivore(Ph(c)) THEN @ + 1 ELSE @]],
           creatures, i + 1)

\* tick(): ecosystem creature counts (simulation.rs:214-226)
RECURSIVE CountPhase(_, _, _)
CountPhase(ecosystems, creatures, i) ==
    IF i > Len(creatures) THEN ecosystems
    ELSE LET c == creatures[i] IN
         IF ~c.alive THEN CountPhase(ecosystems, creatures, i + 1)
         ELSE CountPhase(
                [ecosystems EXCEPT ![<<c.x, c.y>>] =
                    [@ EXCEPT !.creature_count = @ + 1,
                              !.herbivore_count = IF is_herbivore(Ph(c)) THEN @ + 1 ELSE @,
                              !.carnivore_count = IF is_carnivore(Ph(c)) THEN @ + 1 ELSE @]],
                creatures, i + 1)

\* tick(): herbivore feeding (simulation.rs:229-240)
RECURSIVE FeedingPhase(_, _, _)
FeedingPhase(creatures, ecosystems, i) ==
    IF i > Len(creatures) THEN [creatures |-> creatures, ecosystems |-> ecosystems]
    ELSE LET c == creatures[i] IN
         IF ~c.alive \/ ~(Ph(c).diet < 600)
         THEN FeedingPhase(creatures, ecosystems, i + 1)
         ELSE LET available == ecosystems[<<c.x, c.y>>].plant_biomass
                  consumed == eat_plants_consumed(c, available)
              IN FeedingPhase(
                   [creatures EXCEPT ![i] = eat_plants(c, available)],
                   [ecosystems EXCEPT ![<<c.x, c.y>>] = consume_plants(@, consumed)],
                   i + 1)

\* tick(): carnivore hunting, the prey loop of hunter i from list position k
\* (simulation.rs:252-274); body_size < hunter body_size * 1.5
RECURSIVE HuntPrey(_, _, _, _)
HuntPrey(creatures, i, tile_creatures, k) ==
    IF k > Len(tile_creatures) THEN {creatures}
    ELSE LET prey_idx == tile_creatures[k] IN
         IF prey_idx = i \/ ~creatures[prey_idx].alive
         THEN HuntPrey(creatures, i, tile_creatures, k + 1)
         ELSE IF 2 * Ph(creatures[prey_idx]).body_size < 3 * Ph(creatures[i]).body_size
         THEN UNION {
                LET r == hunt(creatures[i], creatures[prey_idx], roll)
                    after == [creatures EXCEPT ![i] = r.hunter, ![prey_idx] = r.prey]
                IN IF r.killed THEN {after}
                   ELSE HuntPrey(after, i, tile_creatures, k + 1)
                : roll \in HuntRolls }
         ELSE HuntPrey(creatures, i, tile_creatures, k + 1)

\* tick(): carnivore hunting (simulation.rs:243-276), hunters i, i+1, ...
RECURSIVE HuntingPhase(_, _, _)
HuntingPhase(creatures, spatial_clone, i) ==
    IF i > Len(creatures) THEN {creatures}
    ELSE LET c == creatures[i] IN
         IF ~c.alive \/ Ph(c).diet < 200
         THEN HuntingPhase(creatures, spatial_clone, i + 1)
         ELSE UNION { HuntingPhase(after, spatial_clone, i + 1)
                      : after \in HuntPrey(creatures, i, spatial_clone[<<c.y, c.x>>], 1) }

\* The prey loop of hunter i with the calls of hunt it makes: without the
\* skip of prey_idx == i and without the break after a kill
RECURSIVE HuntPreyCalls_greedy(_, _, _, _, _)
HuntPreyCalls_greedy(creatures, i, tile_creatures, k, calls) ==
    IF k > Len(tile_creatures) THEN {[creatures |-> creatures, calls |-> calls]}
    ELSE LET prey_idx == tile_creatures[k] IN
         IF 2 * Ph(creatures[prey_idx]).body_size < 3 * Ph(creatures[i]).body_size
         THEN UNION {
                LET r == hunt(creatures[i], creatures[prey_idx], roll)
                    after == IF prey_idx = i
                             THEN [creatures EXCEPT ![i] =
                                     [r.hunter EXCEPT !.alive = r.prey.alive]]
                             ELSE [creatures EXCEPT ![i] = r.hunter, ![prey_idx] = r.prey]
                    call == [hunter |-> creatures[i].id, prey |-> creatures[prey_idx].id,
                             hunter_alive |-> creatures[i].alive,
                             prey_alive |-> creatures[prey_idx].alive,
                             killed |-> r.killed]
                IN HuntPreyCalls_greedy(after, i, tile_creatures, k + 1, Append(calls, call))
                : roll \in HuntRolls }
         ELSE HuntPreyCalls_greedy(creatures, i, tile_creatures, k + 1, calls)

\* tick(): the prey loop of hunter i from list position k with the calls of
\* Creature::hunt it makes, in order (simulation.rs:252-274)
RECURSIVE HuntPreyCalls(_, _, _, _, _)
HuntPreyCalls(creatures, i, tile_creatures, k, calls) ==
    IF k > Len(tile_creatures) THEN {[creatures |-> creatures, calls |-> calls]}
    ELSE LET prey_idx == tile_creatures[k] IN
         IF prey_idx = i \/ ~creatures[prey_idx].alive
         THEN HuntPreyCalls(creatures, i, tile_creatures, k + 1, calls)
         ELSE IF 2 * Ph(creatures[prey_idx]).body_size < 3 * Ph(creatures[i]).body_size
         THEN UNION {
                LET r == hunt(creatures[i], creatures[prey_idx], roll)
                    after == [creatures EXCEPT ![i] = r.hunter, ![prey_idx] = r.prey]
                    call == [hunter |-> creatures[i].id, prey |-> creatures[prey_idx].id,
                             hunter_alive |-> creatures[i].alive,
                             prey_alive |-> creatures[prey_idx].alive,
                             killed |-> r.killed]
                IN IF r.killed
                   THEN {[creatures |-> after, calls |-> Append(calls, call)]}
                   ELSE HuntPreyCalls(after, i, tile_creatures, k + 1, Append(calls, call))
                : roll \in HuntRolls }
         ELSE HuntPreyCalls(creatures, i, tile_creatures, k + 1, calls)

\* tick(): carnivore hunting with the calls of Creature::hunt of the whole
\* phase, in order (simulation.rs:243-276)
RECURSIVE HuntingPhaseCalls(_, _, _, _)
HuntingPhaseCalls(creatures, spatial_clone, i, calls) ==
    IF i > Len(creatures) THEN {[creatures |-> creatures, calls |-> calls]}
    ELSE LET c == creatures[i] IN
         IF ~c.alive \/ Ph(c).diet < 200
         THEN HuntingPhaseCalls(creatures, spatial_clone, i + 1, calls)
         ELSE UNION { HuntingPhaseCalls(r.creatures, spatial_clone, i + 1, r.calls)
                      : r \in HuntPreyCalls(creatures, i, spatial_clone[<<c.y, c.x>>],
                                            1, calls) }

\* Variant of the partner search that takes a partner of any species.
RECURSIVE FirstPartner_anyspecies(_, _, _, _)
FirstPartner_anyspecies(creatures, i, tile_creatures, k) ==
    IF k > Len(tile_creatures) THEN 0
    ELSE LET partner_idx == tile_creatures[k] IN
         IF \/ partner_idx = i
            \/ ~creatures[partner_idx].alive
            \/ ~can_reproduce(creatures[partner_idx])
         THEN FirstPartner_anyspecies(creatures, i, tile_creatures, k + 1)
         ELSE partner_idx

\* tick(): reproduction, the first partner of creature i on its tile from
\* list position k, 0 when there is none (simulation.rs:292-303)
RECURSIVE FirstPartner(_, _, _, _)
FirstPartner(creatures, i, tile_creatures, k) ==
    IF k > Len(tile_creatures) THEN 0
    ELSE LET partner_idx == tile_creatures[k] IN
         IF \/ partner_idx = i
            \/ ~creatures[partner_idx].alive
            \/ ~can_reproduce(creatures[partner_idx])
            \/ creatures[i].species_id # creatures[partner_idx].species_id
         THEN FirstPartner(creatures, i, tile_creatures, k + 1)
         ELSE partner_idx

\* record_birth for each child in order (simulation.rs:318-322)
RECURSIVE RecordBirths(_, _, _)
RecordBirths(reg, offspring, k) ==
    IF k > Len(offspring) THEN reg
    ELSE RecordBirths(record_birth(reg, offspring[k].species_id, offspring[k].generation),
                      offspring, k + 1)

\* Variant of the reproduction event that leaves next_creature_id where it was
ReproductionEvent_reuse(st, i, partner_idx, genomes) ==
    LET r == reproduce(st.creatures[i], st.creatures[partner_idx],
                       st.next_creature_id, genomes)
    IN [creatures |-> [st.creatures EXCEPT ![i] = r.parent_a, ![partner_idx] = r.parent_b],
        new_creatures |-> st.new_creatures \o r.offspring,
        species_registry |-> RecordBirths(st.species_registry, r.offspring, 1),
        next_creature_id |-> st.next_creature_id]

\* tick(): one reproduction event of creature i with partner_idx
\* (simulation.rs:305-323)
ReproductionEvent(st, i, partner_idx, genomes) ==
    LET r == reproduce(st.creatures[i], st.creatures[partner_idx],
                       st.next_creature_id, genomes)
    IN [creatures |-> [st.creatures EXCEPT ![i] = r.parent_a, ![partner_idx] = r.parent_b],
        new_creatures |-> st.new_creatures \o r.offspring,
        species_registry |-> RecordBirths(st.species_registry, r.offspring, 1),
        next_creature_id |-> st.next_creature_id + Len(r.offspring)]

\* Variant of the cap test that lets the store grow one past max_creatures.
ReproductionCapReached_strict(st, config) ==
    Len(st.creatures) + Len(st.new_creatures) > config.max_creatures

\* tick(): the cap test of the reproduction loop (simulation.rs:286-288)
ReproductionCapReached(st, config) ==
    Len(st.creatures) + Len(st.new_creatures) >= config.max_creatures

\* tick(): reproduction (simulation.rs:279-326), creatures i, i+1, ...
RECURSIVE ReproductionPhase(_, _, _, _)
ReproductionPhase(st, config, spatial_clone, i) ==
    IF i > Len(st.creatures) THEN {st}
    ELSE LET c == st.creatures[i] IN
         IF ~can_reproduce(c) THEN ReproductionPhase(st, config, spatial_clone, i + 1)
         ELSE IF ReproductionCapReached(st, config) THEN {st}
         ELSE LET partner_idx ==
                      FirstPartner(st.creatures, i, spatial_clone[<<c.y, c.x>>], 1)
              IN IF partner_idx = 0
                 THEN ReproductionPhase(st, config, spatial_clone, i + 1)
                 ELSE UNION {
                        ReproductionPhase(ReproductionEvent(st, i, partner_idx, genomes),
                                          config, spatial_clone, i + 1)
                        : genomes \in ChildGenomes(c.genome,
                                                   st.creatures[partner_idx].genome,
                                                   reproduce_count(c, st.creatures[partner_idx])) }

\* tick(): reproduction with the events of the loop, in order
\* (simulation.rs:279-326): each event holds the two store positions, the
\* two creatures as reproduce found them, the children and the registry
\* before and after the births were recorded.
RECURSIVE ReproductionPhaseEvents(_, _, _, _, _)
ReproductionPhaseEvents(st, config, spatial_clone, i, events) ==
    IF i > Len(st.creatures) THEN {[st |-> st, events |-> events]}
    ELSE LET c == st.creatures[i] IN
         IF ~can_reproduce(c)
         THEN ReproductionPhaseEvents(st, config, spatial_clone, i + 1, events)
         ELSE IF ReproductionCapReached(st, config) THEN {[st |-> st, events |-> events]}
         ELSE LET partner_idx ==
                      FirstPartner(st.creatures, i, spatial_clone[<<c.y, c.x>>], 1)
              IN IF partner_idx = 0
                 THEN ReproductionPhaseEvents(st, config, spatial_clone, i + 1, events)
                 ELSE UNION {
                        LET after == ReproductionEvent(st, i, partner_idx, genomes)
                            event == [i |-> i,
                                      partner_idx |-> partner_idx,
                                      parent_a |-> c,
                                      parent_b |-> st.creatures[partner_idx],
                                      offspring |-> SubSeq(after.new_creatures,
                                                           Len(st.new_creatures) + 1,
                                                           Len(after.new_creatures)),
                                      registry_before |-> st.species_registry,
                                      registry_after |-> after.species_registry]
                        IN ReproductionPhaseEvents(after, config, spatial_clone, i + 1,
                                                   Append(events, event))
                        : genomes \in ChildGenomes(c.genome,
                                                   st.creatures[partner_idx].genome,
                                                   reproduce_count(c, st.creatures[partner_idx])) }

\* Mutant: the sweep records the death of a dead creature twice.
RECURSIVE DeathSweep_twice(_, _, _, _)
DeathSweep_twice(creatures, reg, tick, i) ==
    IF i > Len(creatures) THEN [creatures |-> <<>>, species_registry |-> reg]
    ELSE IF ~creatures[i].alive
         THEN DeathSweep_twice(
                creatures,
                record_death(record_death(reg, creatures[i].species_id, tick),
                             creatures[i].species_id, tick),
                tick, i + 1)
         ELSE LET rest == DeathSweep_twice(creatures, reg, tick, i + 1)
              IN [rest EXCEPT !.creatures = <<creatures[i]>> \o @]

\* tick(), phase 4: remove dead creatures (simulation.rs:332-341)
RECURSIVE DeathSweep(_, _, _, _)
DeathSweep(creatures, reg, tick, i) ==
    IF i > Len(creatures) THEN [creatures |-> <<>>, species_registry |-> reg]
    ELSE IF ~creatures[i].alive
         THEN DeathSweep(creatures, record_death(reg, creatures[i].species_id, tick),
                         tick, i + 1)
         ELSE LET rest == DeathSweep(creatures, reg, tick, i + 1)
              IN [rest EXCEPT !.creatures = <<creatures[i]>> \o @]

\* check_speciation, first loop (simulation.rs:378-398): the registry with
\* the new species and the reassignments <<idx, new_species_id>>
RECURSIVE SpeciationCandidates(_, _, _, _, _)
SpeciationCandidates(creatures, reg, threshold, tick, idx) ==
    IF idx > Len(creatures) THEN [species_registry |-> reg, reassignments |-> <<>>]
    ELSE LET c == creatures[idx] IN
         IF c.alive /\ registry_check_speciation(reg, c.genome, c.species_id, threshold)
         THEN LET rest == SpeciationCandidates(
                            creatures, create_species(reg, c.species_id, c.genome, tick),
                            threshold, tick, idx + 1)
              IN [rest EXCEPT !.reassignments = <<<<idx, reg.next_id>>>> \o @]
         ELSE SpeciationCandidates(creatures, reg, threshold, tick, idx + 1)

\* Mutant: a nearby creature changes species without the registry being told.
RECURSIVE ReassignNearby_silent(_, _, _, _, _, _, _)
ReassignNearby_silent(st, idx, old_species_id, new_species_id, threshold, tick, other_idx) ==
    IF other_idx > Len(st.creatures) THEN st
    ELSE LET o == st.creatures[other_idx]
             c == st.creatures[idx]
         IN IF \/ other_idx = idx
               \/ ~o.alive
               \/ o.species_id # old_species_id
               \/ Abs(o.x - c.x) > 15
               \/ Abs(o.y - c.y) > 15
               \/ ~DistanceBelow07(o.genome, c.genome, threshold)
            THEN ReassignNearby_silent(st, idx, old_species_id, new_species_id,
                                       threshold, tick, other_idx + 1)
            ELSE ReassignNearby_silent(
                   [st EXCEPT !.creatures[other_idx].species_id = new_species_id],
                   idx, old_species_id, new_species_id, threshold, tick, other_idx + 1)

\* check_speciation, the loop over the other creatures of one reassignment
\* (simulation.rs:413-433)
RECURSIVE ReassignNearby(_, _, _, _, _, _, _)
ReassignNearby(st, idx, old_species_id, new_species_id, threshold, tick, other_idx) ==
    IF other_idx > Len(st.creatures) THEN st
    ELSE LET o == st.creatures[other_idx]
             c == st.creatures[idx]
         IN IF \/ other_idx = idx
               \/ ~o.alive
               \/ o.species_id # old_species_id
               \/ Abs(o.x - c.x) > 15
               \/ Abs(o.y - c.y) > 15
               \/ ~DistanceBelow07(o.genome, c.genome, threshold)
            THEN ReassignNearby(st, idx, old_species_id, new_species_id,
                                threshold, tick, other_idx + 1)
            ELSE ReassignNearby(
                   [creatures |-> [st.creatures EXCEPT ![other_idx].species_id = new_species_id],
                    species_registry |->
                        record_birth(record_death(st.species_registry, old_species_id, tick),
                                     new_species_id, o.generation)],
                   idx, old_species_id, new_species_id, threshold, tick, other_idx + 1)

\* Variant of the second loop that records the birth of a reassigned creature
\* in its new species and no death in the old one.
RECURSIVE ApplyReassignments_birthonly(_, _, _, _, _)
ApplyReassignments_birthonly(st, reassignments, threshold, tick, k) ==
    IF k > Len(reassignments) THEN st
    ELSE LET idx == reassignments[k][1]
             new_species_id == reassignments[k][2]
             old_species_id == st.creatures[idx].species_id
             moved == [creatures |-> [st.creatures EXCEPT ![idx].species_id = new_species_id],
                       species_registry |->
                           record_birth(st.species_registry, new_species_id,
                                        st.creatures[idx].generation)]
         IN ApplyReassignments_birthonly(
              ReassignNearby(moved, idx, old_species_id, new_species_id, threshold, tick, 1),
              reassignments, threshold, tick, k + 1)

\* check_speciation, second loop (simulation.rs:401-434)
RECURSIVE ApplyReassignments(_, _, _, _, _)
ApplyReassignments(st, reassignments, threshold, tick, k) ==
    IF k > Len(reassignments) THEN st
    ELSE LET idx == reassignments[k][1]
             new_species_id == reassignments[k][2]
             old_species_id == st.creatures[idx].species_id
             moved == [creatures |-> [st.creatures EXCEPT ![idx].species_id = new_species_id],
                       species_registry |->
                           record_birth(record_death(st.species_registry, old_species_id, tick),
                                        new_species_id, st.creatures[idx].generation)]
         IN ApplyReassignments(
              ReassignNearby(moved, idx, old_species_id, new_species_id, threshold, tick, 1),
              reassignments, threshold, tick, k + 1)

\* Simulation::check_speciation
check_speciation(creatures, reg, threshold, tick) ==
    LET found == SpeciationCandidates(creatures, reg, threshold, tick, 1)
    IN ApplyReassignments([creatures |-> creatures, species_registry |-> found.species_registry],
                          found.reassignments, threshold, tick, 1)

\* SpeciesRegistry::living_species, as the set of the ids
living_species(reg) ==
    {id \in DOMAIN reg.species : ~is_extinct(reg.species[id])}

\* Mutant: the snapshot ring is never trimmed.
SnapshotPhase_notrim(history_ring, creatures, reg, tick) ==
    IF tick % 10 # 0 THEN history_ring
    ELSE Append(history_ring,
                [tick |-> tick,
                 total |-> Len(creatures),
                 herbivores |-> Len(SelectSeq(creatures,
                                   LAMBDA c : c.alive /\ is_herbivore(Ph(c)))),
                 carnivores |-> Len(SelectSeq(creatures,
                                   LAMBDA c : c.alive /\ is_carnivore(Ph(c)))),
                 species_count |-> Cardinality(living_species(reg))])

\* tick(), phase 6: population snapshot (simulation.rs:349-374)
SnapshotPhase(history_ring, creatures, reg, tick) ==
    IF tick % 10 # 0 THEN history_ring
    ELSE LET pushed == Append(history_ring,
                         [tick |-> tick,
                          total |-> Len(creatures),
                          herbivores |-> Len(SelectSeq(creatures,
                                            LAMBDA c : c.alive /\ is_herbivore(Ph(c)))),
                          carnivores |-> Len(SelectSeq(creatures,
                                            LAMBDA c : c.alive /\ is_carnivore(Ph(c)))),
                          species_count |-> Cardinality(living_species(reg))])
         IN IF Len(pushed) > 500 THEN SubSeq(pushed, 101, Len(pushed)) ELSE pushed

\* tick() from the end of the reproduction loop (simulation.rs:329-374)
FinishTick(s, tick, ecosystems, spatial_index, st) ==
    LET swept == DeathSweep(st.creatures \o st.new_creatures, st.species_registry, tick, 1)
        spec == IF tick % s.config.speciation_check_interval = 0
                THEN check_speciation(swept.creatures, swept.species_registry,
                                      s.config.speciation_threshold, tick)
                ELSE swept
    IN [s EXCEPT !.tick = tick,
                 !.creatures = spec.creatures,
                 !.ecosystems = ecosystems,
                 !.species_registry = spec.species_registry,
                 !.next_creature_id = st.next_creature_id,
                 !.population_history =
                     SnapshotPhase(@, spec.creatures, spec.species_registry, tick),
                 !.spatial_index = spatial_index]

\* Simulation::tick up to the start of the reproduction phase
\* (simulation.rs:168-282): the stores, with the spatial index built after
\* movement, that the reproduction loop of the next call can start from.
ReproductionStarts(s) ==
    UNION {
      LET spatial_index == rebuild_spatial_index(s.config, moved)
          fed == FeedingPhase(moved, CountPhase(GrowthPhase(s.ecosystems), moved, 1), 1)
      IN { [st |-> [creatures |-> hunted,
                    new_creatures |-> <<>>,
                    species_registry |-> s.species_registry,
                    next_creature_id |-> s.next_creature_id],
            spatial_index |-> spatial_index]
           : hunted \in HuntingPhase(fed.creatures, spatial_index, 1) }
      : moved \in MovementPhase(s, s.tick + 1, 1) }

\* Simulation::tick up to the start of the hunting phase
\* (simulation.rs:168-242): the fed creatures and the spatial index the
\* hunting loop of the next call can start from.
HuntStarts(s) ==
    { [creatures |->
          FeedingPhase(moved, CountPhase(GrowthPhase(s.ecosystems), moved, 1), 1).creatures,
       spatial_index |-> rebuild_spatial_index(s.config, moved)]
      : moved \in MovementPhase(s, s.tick + 1, 1) }

\* The hunting phase of the next call of tick with its calls of hunt
HuntRuns(s) ==
    UNION { { [start |-> start, creatures |-> r.creatures, calls |-> r.calls]
              : r \in HuntingPhaseCalls(start.creatures, start.spatial_index, 1, <<>>) }
            : start \in HuntStarts(s) }

\* Simulation::tick up to the end of the reproduction loop
\* (simulation.rs:168-326): the stores each phase of the next call leaves,
\* phase by phase in the order of the code.
PhaseRuns(s) ==
    UNION {
      LET spatial_index == rebuild_spatial_index(s.config, moved)
          fed == FeedingPhase(moved, CountPhase(GrowthPhase(s.ecosystems), moved, 1), 1)
      IN UNION {
           { [moved |-> moved,
              spatial_index |-> spatial_index,
              fed |-> fed,
              hunted |-> hunted,
              bred |-> st]
             : st \in ReproductionPhase(
                        [creatures |-> hunted,
                         new_creatures |-> <<>>,
                         species_registry |-> s.species_registry,
                         next_creature_id |-> s.next_creature_id],
                        s.config, spatial_index, 1) }
           : hunted \in HuntingPhase(fed.creatures, spatial_index, 1) }
      : moved \in MovementPhase(s, s.tick + 1, 1) }

\* The reproduction loop of the next call of tick with its events
ReproductionRuns(s) ==
    UNION { ReproductionPhaseEvents(start.st, s.config, start.spatial_index, 1, <<>>)
            : start \in ReproductionStarts(s) }

\* Simulation::tick up to the call of check_speciation (simulation.rs:168-366):
\* the swept stores and registries the check of the next call can start from,
\* none when the next tick is not a multiple of speciation_check_interval.
SpeciationStarts(s) ==
    IF (s.tick + 1) % s.config.speciation_check_interval # 0 THEN {}
    ELSE UNION {
           { DeathSweep(st.creatures \o st.new_creatures, st.species_registry, s.tick + 1, 1)
             : st \in ReproductionPhase(start.st, s.config, start.spatial_index, 1) }
           : start \in ReproductionStarts(s) }

\* Simulation::tick: the states one call can leave
TickResults(s) ==
    LET tick == s.tick + 1
        grown == GrowthPhase(s.ecosystems)
    IN UNION {
         LET spatial_index == rebuild_spatial_index(s.config, moved)
             fed == FeedingPhase(moved, CountPhase(grown, moved, 1), 1)
         IN UNION {
              { FinishTick(s, tick, fed.ecosystems, spatial_index, st)
                : st \in ReproductionPhase(
                           [creatures |-> hunted,
                            new_creatures |-> <<>>,
                            species_registry |-> s.species_registry,
                            next_creature_id |-> s.next_creature_id],
                           s.config, spatial_index, 1) }
              : hunted \in HuntingPhase(fed.creatures, spatial_index, 1) }
         : moved \in MovementPhase(s, tick, 1) }

(***************************************************************************)
(* The accessors get_stats_json and get_creature_data.  The registry is a  *)
(* std HashMap: values() visits the entries in the order their keys hash   *)
(* to under the map's RandomState, which every map instance draws for      *)
(* itself.  random_state holds the keys of the registries of two           *)
(* instances a and b built from the same seed and config; every other draw *)
(* of the two comes from the SmallRng seeded with the seed, so the two     *)
(* hold the same sim after the same number of ticks.                       *)
(***************************************************************************)
\* A bounded sample of the hasher keys: under key 0 the ids hash in
\* ascending order, under key 1 in descending order.
RandomStates == {0, 1}

hash_one(k, id) == IF k = 0 THEN id ELSE -id

\* HashMap::values over the entries ids, as the sequence of the ids visited
RECURSIVE values(_, _)
values(k, ids) ==
    IF ids = {} THEN <<>>
    ELSE LET first == CHOOSE i \in ids : \A j \in ids : hash_one(k, i) <= hash_one(k, j)
         IN <<first>> \o values(k, ids \ {first})

\* DietLabel::from_diet(..).name() of the representative genome
diet_label(genome) ==
    IF genome[DIET] * 100 < 350 THEN "Herbivore"
    ELSE IF genome[DIET] * 100 > 650 THEN "Carnivore"
    ELSE "Omnivore"

\* format!("{:.1}", average_generation()): the average in tenths, rounded
avg_generation(sp) ==
    IF sp.total_born = 0 THEN 0
    ELSE (20 * sp.generation_sum + sp.total_born) \div (2 * sp.total_born)

RECURSIVE SumSeq(_)
SumSeq(s) == IF s = <<>> THEN 0 ELSE Head(s) + SumSeq(Tail(s))

\* Simulation::get_stats_json of an instance whose registry hashes with k
\* (name and color of a species are draws of the seeded generator and are
\* left out)
get_stats_json(s, k) ==
    LET living == values(k, living_species(s.species_registry))
        sp(i) == s.species_registry.species[living[i]]
    IN [tick |-> s.tick,
        total_population |-> SumSeq([i \in 1..Len(living) |-> sp(i).population]),
        total_creatures |-> Len(s.creatures),
        living_species_count |-> Len(living),
        total_species_ever |-> Len(s.species_registry.species),
        species |-> [i \in 1..Len(living) |->
                       [id |-> sp(i).id,
                        population |-> sp(i).population,
                        diet |-> diet_label(sp(i).representative_genome),
                        peak_population |-> sp(i).peak_population,
                        avg_generation |-> avg_generation(sp(i)),
                        ancestor_id |-> sp(i).ancestor_id]]]

\* Simulation::get_creature_data: per living creature x, y, the species
\* (for its color), body_size, diet and energy
get_creature_data(s) ==
    LET alive == SelectSeq(s.creatures, LAMBDA c : c.alive)
    IN [i \in 1..Len(alive) |->
          <<alive[i].x, alive[i].y,
            IF HasSpecies(s.species_registry, alive[i].species_id)
            THEN alive[i].species_id ELSE 0,
            Ph(alive[i]).body_size, Ph(alive[i]).diet, alive[i].energy>>]

(***************************************************************************)
(* The worlds, genomes and configurations explored.                        *)
(***************************************************************************)
\* Herbivore starter genomes (random_herbivore: diet < 0.25, aggression
\* < 0.3, body size in 0.2..0.6, speed in 0.3..0.7).  HerbB and HerbC lie
\* further than the speciation threshold from HerbA and within 0.7 of it
\* from each other.
HerbA == Genome(<<2, 3, 0, 0, 0, 9, 0, 0, 5, 9, 4, 9, 9, 0>>)
HerbB == Genome(<<2, 3, 0, 0, 0, 9, 9, 0, 5, 9, 4, 9, 9, 9>>)
HerbC == Genome(<<2, 3, 0, 0, 0, 9, 9, 0, 5, 9, 4, 9, 9, 8>>)

\* A carnivore starter genome (random_carnivore: diet >= 0.75, aggression
\* >= 0.6, body size in 0.4..0.8, speed in 0.5..0.9, sense range >= 0.5).
CarnA == Genome(<<5, 6, 5, 8, 0, 9, 5, 7, 5, 5, 0, 9, 9, 5>>)

Herbivores == {HerbA, HerbB, HerbC}
Carnivores == {CarnA}

\* A terrain cell as the simulation reads it: dominant_biome(), temperature
\* and rainfall.
Cell(biome, temperature, rainfall) ==
    [biome |-> biome, temperature |-> temperature, rainfall |-> rainfall]

RainforestWorld == [t \in {<<0, 0>>} |-> Cell("Rainforest", 25, 2000)]
DesertWorld == [t \in {<<0, 0>>} |-> Cell("Desert", 33, 20)]
OceanWorld == [t \in {<<0, 0>>} |-> Cell("Ocean", 10, 1000)]
CoastWorld ==
    [t \in {<<0, 0>>, <<1, 0>>} |->
        IF t = <<0, 0>> THEN Cell("Ocean", 10, 1000) ELSE Cell("Grassland", 15, 600)]

\* SimConfig; speciation_threshold in hundredths (default 0.32)
SimConfig(w, h, herbivore_species, carnivore_species, per_species, max_creatures, interval) ==
    [world_width |-> w,
     world_height |-> h,
     initial_herbivore_species |-> herbivore_species,
     initial_carnivore_species |-> carnivore_species,
     creatures_per_species |-> per_species,
     max_creatures |-> max_creatures,
     speciation_threshold |-> 32,
     speciation_check_interval |-> interval]

\* The (config, world) pairs a client constructs the simulation with.
Scenarios ==
    { [config |-> SimConfig(1, 1, 1, 0, 3, 4, 3), terrain |-> RainforestWorld],
      [config |-> SimConfig(1, 1, 1, 0, 2, 3, 3), terrain |-> DesertWorld],
      [config |-> SimConfig(1, 1, 1, 1, 1, 3, 3), terrain |-> RainforestWorld],
      [config |-> SimConfig(1, 1, 1, 1, 0, 3, 3), terrain |-> RainforestWorld],
      [config |-> SimConfig(2, 1, 1, 0, 1, 3, 3), terrain |-> CoastWorld],
      [config |-> SimConfig(1, 1, 1, 1, 2, 3, 3), terrain |-> OceanWorld],
      [config |-> SimConfig(1, 1, 1, 0, 2, 2, 3), terrain |-> RainforestWorld] }

\* The (config, world) pairs of the two-instance runs: two herbivore species.
TwinScenarios ==
    { [config |-> SimConfig(1, 1, 2, 0, 1, 3, 3), terrain |-> RainforestWorld],
      [config |-> SimConfig(1, 1, 2, 0, 1, 3, 3), terrain |-> DesertWorld] }

\* A simulation over a world without habitable tiles: it holds no creature
\* and no species, and a tick changes nothing but the tick counter.
IdleSimulation ==
    CHOOSE s \in SimulationNew(SimConfig(1, 1, 1, 1, 2, 3, 3), OceanWorld,
                               Herbivores, Carnivores) : TRUE

(***************************************************************************)
(* civ-sim utils.rs.  Coordinates and widths are u32; the distance is      *)
(* computed in f32, whose 24-bit significand holds every integer up to     *)
(* 2^24 and every second integer from there to 2^25.  Distances are in     *)
(* thousandths.                                                            *)
(***************************************************************************)
\* The largest u32 up to which every integer converts to f32 unchanged
F32_EXACT_MAX == 16777216

\* n as f32 for a u32 n < 2^25: round to nearest, ties to even
as_f32(n) ==
    IF n <= F32_EXACT_MAX \/ n % 2 = 0 THEN n
    ELSE IF n % 4 = 1 THEN n - 1 ELSE n + 1

\* f32::sqrt of a small integer, in thousandths (rounded down)
sqrt(n) ==
    CHOOSE r \in 0..(1000 * (n + 1)) :
        r * r <= n * 1000000 /\ (r + 1) * (r + 1) > n * 1000000

\* Variant of wrapped_distance that measures along the grid without the seam.
wrapped_distance_direct(x1, y1, x2, y2, world_width) ==
    LET dx == Abs(as_f32(x1) - as_f32(x2))
        dy == Abs(as_f32(y1) - as_f32(y2))
    IN sqrt(dx * dx + dy * dy)

\* wrapped_distance
wrapped_distance(x1, y1, x2, y2, world_width) ==
    LET direct == Abs(as_f32(x1) - as_f32(x2))
        wrapped == as_f32(world_width) - direct
        dx == Min(direct, wrapped)
        dy == Abs(as_f32(y1) - as_f32(y2))
    IN sqrt(dx * dx + dy * dy)

(***************************************************************************)
(* civ-sim: world.rs, civilization.rs, politics.rs, culture.rs,            *)
(* religion.rs and simulation.rs.  civ is the Simulation struct with the   *)
(* fields world, current_year, populations, settlements, nations,          *)
(* cultures, religions, total_population and total_settlements.  The maps  *)
(* keyed by an id handed out by a counter starting at 1 are sequences: the *)
(* entry of id i is element i, and the counter is the length plus one.    *)
(* Option<u64> ids are naturals with NoId for None.  A Vec<Vec<Tile>> row  *)
(* y, column x is tiles[y + 1][x + 1].  Fractions are fixed point:         *)
(* altitude, fertility, habitability, fervor in hundredths, food_stored in *)
(* tenths, happiness and prestige in thousandths, rates as stated.  The    *)
(* leaders, research, government, diplomacy, armies, markets and the event *)
(* log of the struct are not part of civ: no step below reads them.        *)
(***************************************************************************)
NoId == 0

\* The elements of a sequence
SeqRange(s) == {s[i] : i \in 1..Len(s)}

\* Option::None of get_tile
NoTile == [none |-> TRUE]

\* const START_YEAR
START_YEAR == -10000

\* const INITIAL_POPULATION_GROUPS
INITIAL_POPULATION_GROUPS == 20

\* BiomeType::habitability, in hundredths
habitability(biome) ==
    CASE biome = "Ocean" -> 0
      [] biome = "DeepOcean" -> 0
      [] biome = "IceCap" -> 2
      [] biome = "Tundra" -> 15
      [] biome = "Taiga" -> 35
      [] biome = "Grassland" -> 90
      [] biome = "Savanna" -> 70
      [] biome = "Desert" -> 10
      [] biome = "Forest" -> 75
      [] biome = "Rainforest" -> 50
      [] biome = "Mountains" -> 20
      [] biome = "Hills" -> 60
      [] biome = "Wetlands" -> 40
      [] biome = "CoastalWaters" -> 0

\* struct Tile as World::new leaves it: no owner, no settlement
CivTile(biome, altitude, fertility, is_river, is_coastal, resources) ==
    [biome |-> biome,
     altitude |-> altitude,
     fertility |-> fertility,
     is_river |-> is_river,
     is_coastal |-> is_coastal,
     resources |-> resources,
     owner_nation_id |-> NoId,
     settlement_id |-> NoId]

\* Tile::is_land
is_land(tile) == tile.altitude > 0

\* struct World
CivWorld(tiles) ==
    [width |-> Len(tiles[1]), height |-> Len(tiles), tiles |-> tiles]

\* World::get_tile: self.tiles.get(y)?.get(x)
get_tile(world, x, y) ==
    IF (y + 1) \in DOMAIN world.tiles /\ (x + 1) \in DOMAIN world.tiles[y + 1]
    THEN world.tiles[y + 1][x + 1]
    ELSE NoTile

\* World::get_tile_mut followed by the assignment of the two ownership fields
set_tile_ids(world, x, y, settlement_id, owner_nation_id) ==
    IF get_tile(world, x, y) = NoTile THEN world
    ELSE [world EXCEPT !.tiles[y + 1][x + 1].settlement_id = settlement_id,
                       !.tiles[y + 1][x + 1].owner_nation_id = owner_nation_id]

\* The eight offsets of get_neighbors, in its order
NeighborOffsets ==
    << <<-1, 0>>, <<1, 0>>, <<0, -1>>, <<0, 1>>,
       <<-1, -1>>, <<1, -1>>, <<-1, 1>>, <<1, 1>> >>

\* World::get_neighbors: x wraps, y is clamped
get_neighbors(world, x, y) ==
    [k \in 1..8 |->
        << (x + NeighborOffsets[k][1] + world.width) % world.width,
           Clamp(y + NeighborOffsets[k][2], 0, world.height - 1) >>]

\* The score of find_suitable_settlement_locations, in hundredths
LocationScore(tile) ==
    habitability(tile.biome) * 30 + tile.fertility * 20
    + (IF tile.is_river THEN 2500 ELSE 0)
    + (IF tile.is_coastal THEN 1500 ELSE 0)
    + Len(tile.resources) * 500

\* Vec::sort_by on descending score: a stable sort of the scan order
RECURSIVE SortByScore(_, _)
SortByScore(world, locations) ==
    IF locations = <<>> THEN <<>>
    ELSE LET score(i) == LocationScore(get_tile(world, locations[i][1], locations[i][2]))
             best == CHOOSE i \in DOMAIN locations :
                         /\ \A j \in DOMAIN locations : score(j) <= score(i)
                         /\ \A j \in 1..(i - 1) : score(j) < score(i)
             rest == [k \in 1..(Len(locations) - 1) |->
                         IF k < best THEN locations[k] ELSE locations[k + 1]]
         IN <<locations[best]>> \o SortByScore(world, rest)

\* World::find_suitable_settlement_locations
find_suitable_settlement_locations(world) ==
    LET RECURSIVE Scan(_)
        Scan(n) ==
            IF n >= world.width * world.height THEN <<>>
            ELSE LET x == n % world.width
                     y == n \div world.width
                     tile == world.tiles[y + 1][x + 1]
                 IN (IF is_land(tile) /\ LocationScore(tile) > 2000
                     THEN << <<x, y>> >> ELSE <<>>) \o Scan(n + 1)
    IN SortByScore(world, Scan(0))

\* Settlement::new with the two fields create_settlement assigns
SettlementNew(x, y, culture_id, nation_id) ==
    [x |-> x,
     y |-> y,
     population |-> 100,
     food_stored |-> 1000,
     happiness |-> 700,
     owner_nation_id |-> nation_id,
     primary_culture_id |-> culture_id,
     primary_religion_id |-> NoId]

\* Culture::new through CultureManager::create_culture
CultureNew == [population |-> 0, settlements |-> 0]

\* Simulation::create_settlement
create_settlement(c, location, culture_id, nation_id) ==
    LET settlement_id == Len(c.settlements) + 1
    IN [c EXCEPT
          !.settlements = Append(@, SettlementNew(location[1], location[2],
                                                  culture_id, nation_id)),
          !.total_settlements = @ + 1,
          !.world = set_tile_ids(@, location[1], location[2],
                                 settlement_id, nation_id)]

\* Nation::new through NationManager::create_nation
NationNew(capital_location) ==
    [capital |-> capital_location,
     capital_id |-> NoId,
     controlled_tiles |-> {capital_location},
     settlements |-> <<>>,
     total_population |-> 0,
     at_war_with |-> {},
     is_alive |-> TRUE]

\* Simulation::create_nation; the new nation's id is the new length
create_nation(c, capital_location) ==
    [c EXCEPT !.nations = Append(@, NationNew(capital_location))]

\* ReligionType::conversion_rate of the three types create_religion draws, in tenths
conversion_rate(religion_type) ==
    CASE religion_type = "Polytheism" -> 9
      [] religion_type = "Animism" -> 7
      [] religion_type = "AncestorWorship" -> 6

\* The types create_religion draws
ReligionTypes == {"Polytheism", "Animism", "AncestorWorship"}

\* Samples of rng.gen_range(0.3..0.8) for the fervor, in hundredths
Fervors == {30, 79}

\* Religion::new through ReligionManager::create_religion
ReligionNew(religion_type, fervor) ==
    [religion_type |-> religion_type,
     prestige |-> 10000,
     fervor |-> fervor,
     follower_count |-> 0,
     settlement_count |-> 0]

\* Simulation::create_religion; the new religion's id is the new length
create_religion(c) ==
    { [c EXCEPT !.religions = Append(@, ReligionNew(religion_type, fervor))]
      : religion_type \in ReligionTypes, fervor \in Fervors }

\* Samples of rng.gen_range(50..200) for the size of a population group
PopulationSizes == {50, 199}

\* struct Population
PopulationNew(size, location, culture_id, is_nomadic) ==
    [size |-> size,
     location |-> location,
     culture_id |-> culture_id,
     is_nomadic |-> is_nomadic]

\* Simulation::spawn_initial_populations, from group i (0-based) on
RECURSIVE SpawnFrom(_, _, _)
SpawnFrom(c, suitable_locations, i) ==
    IF i >= Min(INITIAL_POPULATION_GROUPS, Len(suitable_locations)) THEN {c}
    ELSE LET location == suitable_locations[i + 1]
             culture_id == Len(c.cultures) + 1
         IN UNION {
              LET grown ==
                    [c EXCEPT
                       !.cultures = Append(@, CultureNew),
                       !.populations =
                           Append(@, PopulationNew(size, location, culture_id, is_nomadic)),
                       !.total_population = @ + size]
              IN SpawnFrom(IF i = 0 \/ settles
                           THEN create_settlement(grown, location, culture_id, NoId)
                           ELSE grown,
                           suitable_locations, i + 1)
              : size \in PopulationSizes, is_nomadic \in BOOLEAN, settles \in BOOLEAN }

\* Simulation::new over a generated world
CivSimulationNew(world) ==
    SpawnFrom([world |-> world,
               current_year |-> START_YEAR,
               populations |-> <<>>,
               settlements |-> <<>>,
               nations |-> <<>>,
               cultures |-> <<>>,
               religions |-> <<>>,
               total_population |-> 0,
               total_settlements |-> 0],
              find_suitable_settlement_locations(world), 0)

\* Samples of the growth rate 0.002 + rng.gen_range(-0.001..0.003) of a
\* population group, in thousandths
GrowthRates == {1, 4}

\* The neighbours a nomadic group may migrate to
ValidNeighbors(world, location) ==
    SelectSeq(get_neighbors(world, location[1], location[2]),
              LAMBDA n : LET t == get_tile(world, n[1], n[2])
                         IN t # NoTile /\ is_land(t) /\ habitability(t.biome) > 20)

\* process_populations, the body of the loop for one group: the group after
\* the step and whether it founds a settlement
PopulationSteps(world, pop) ==
    LET grown(rate) ==
            [pop EXCEPT !.size = Max(pop.size + (pop.size * rate) \div 1000, 10)]
        Moves(p) ==
            {p} \cup (IF p.is_nomadic
                      THEN {[p EXCEPT !.location = n]
                            : n \in SeqRange(ValidNeighbors(world, p.location))}
                      ELSE {})
        Settles(p) ==
            LET t == get_tile(world, p.location[1], p.location[2])
            IN {[pop |-> p, settles |-> FALSE]}
               \cup (IF /\ p.is_nomadic
                        /\ p.size > 100
                        /\ t # NoTile
                        /\ is_land(t)
                        /\ t.settlement_id = NoId
                        /\ habitability(t.biome) > 40
                     THEN {[pop |-> [p EXCEPT !.is_nomadic = FALSE], settles |-> TRUE]}
                     ELSE {})
    IN UNION { UNION { Settles(p) : p \in Moves(grown(rate)) } : rate \in GrowthRates }

\* process_populations, the loop from group i on; new_settlements collects
\* the (location, culture) pairs of the groups that settle
RECURSIVE PopulationLoop(_, _, _, _)
PopulationLoop(world, populations, new_settlements, i) ==
    IF i > Len(populations)
    THEN {[populations |-> populations, new_settlements |-> new_settlements]}
    ELSE UNION {
           PopulationLoop(world,
                          [populations EXCEPT ![i] = step.pop],
                          IF step.settles
                          THEN Append(new_settlements,
                                      <<step.pop.location, step.pop.culture_id>>)
                          ELSE new_settlements,
                          i + 1)
           : step \in PopulationSteps(world, populations[i]) }

\* process_populations, the creation of the collected settlements
RECURSIVE CreateSettlements(_, _)
CreateSettlements(c, new_settlements) ==
    IF new_settlements = <<>> THEN c
    ELSE CreateSettlements(
             create_settlement(c, Head(new_settlements)[1], Head(new_settlements)[2], NoId),
             Tail(new_settlements))

\* Simulation::process_populations
process_populations(c) ==
    { LET settled == CreateSettlements([c EXCEPT !.populations = r.populations],
                                       r.new_settlements)
      IN [settled EXCEPT !.populations = SelectSeq(@, LAMBDA p : p.size > 5)]
      : r \in PopulationLoop(c.world, c.populations, <<>>, 1) }

\* Settlement::tick without buildings; base_fertility in hundredths
settlement_tick(s, base_fertility) ==
    LET food == s.food_stored + base_fertility - s.population
        fed == food > 0
        population ==
            IF fed
            THEN Max(s.population + (s.population * s.happiness * 8) \div 1000000, 10)
            ELSE s.population - s.population \div 20
        happiness == IF fed THEN s.happiness ELSE (s.happiness * 9) \div 10
    IN [s EXCEPT !.population = population,
                 !.food_stored = Clamp(food, -20 * population, 100 * population),
                 !.happiness = Min(happiness + 10, 1000)]

\* The orders in which a HashMap may hand out the keys of a set
KeyOrders(keys) ==
    {order \in [1..Cardinality(keys) -> keys] :
        \A i, j \in DOMAIN order : i # j => order[i] # order[j]}

\* process_settlements, the first loop over the ids in one key order
RECURSIVE SettlementLoop(_, _, _)
SettlementLoop(c, order, i) ==
    IF i > Len(order) THEN {c}
    ELSE LET id == order[i]
             settlement == c.settlements[id]
             tile == get_tile(c.world, settlement.x, settlement.y)
             fertility == IF tile = NoTile THEN 50 ELSE tile.fertility
             may_create_nation ==
                 settlement.owner_nation_id = NoId /\ settlement.population > 500
             ticked == [c EXCEPT !.settlements[id] = settlement_tick(settlement, fertility)]
             nation_id == Len(c.nations) + 1
             founded ==
                 [create_nation(ticked, <<settlement.x, settlement.y>>) EXCEPT
                    !.settlements[id].owner_nation_id = nation_id,
                    !.nations[nation_id].capital_id = id,
                    !.nations[nation_id].settlements = Append(@, id)]
         IN UNION { SettlementLoop(next, order, i + 1)
                    : next \in {ticked} \cup (IF may_create_nation THEN {founded} ELSE {}) }

\* process_settlements, the loop over the religion candidates in one key order
RECURSIVE ReligionLoop(_, _, _)
ReligionLoop(c, candidates, i) ==
    IF i > Len(candidates) THEN {c}
    ELSE LET id == candidates[i]
             religion_id == Len(c.religions) + 1
         IN UNION { ReligionLoop(next, candidates, i + 1)
                    : next \in {c} \cup
                        { [founded EXCEPT !.settlements[id].primary_religion_id = religion_id]
                          : founded \in create_religion(c) } }

\* Simulation::process_settlements
process_settlements(c) ==
    UNION {
      LET candidates ==
            {id \in DOMAIN ticked.settlements :
                /\ ticked.settlements[id].population > 1000
                /\ ticked.settlements[id].primary_religion_id = NoId}
      IN UNION { ReligionLoop(ticked, order, 1) : order \in KeyOrders(candidates) }
      : ticked \in UNION { SettlementLoop(c, order, 1)
                           : order \in KeyOrders(DOMAIN c.settlements) } }

\* NationManager::tick, the part that decides whether a nation lives on
nations_tick(nations) ==
    [id \in DOMAIN nations |->
        IF /\ nations[id].is_alive
           /\ (nations[id].total_population = 0 \/ nations[id].controlled_tiles = {})
        THEN [nations[id] EXCEPT !.is_alive = FALSE]
        ELSE nations[id]]

\* try_nation_expansion, the candidates found from the controlled tiles
\* visited in one order
RECURSIVE ExpansionCandidates(_, _, _, _)
ExpansionCandidates(world, current_tiles, order, i) ==
    IF i > Len(order) THEN <<>>
    ELSE SelectSeq(get_neighbors(world, order[i][1], order[i][2]),
                   LAMBDA n : LET tile == get_tile(world, n[1], n[2])
                              IN /\ tile # NoTile
                                 /\ is_land(tile)
                                 /\ tile.owner_nation_id = NoId
                                 /\ n \notin current_tiles)
         \o ExpansionCandidates(world, current_tiles, order, i + 1)

\* The tiles of to_claim get the nation as owner
RECURSIVE ClaimTiles(_, _, _)
ClaimTiles(world, to_claim, nation_id) ==
    IF to_claim = <<>> THEN world
    ELSE ClaimTiles([world EXCEPT
                       !.tiles[Head(to_claim)[2] + 1][Head(to_claim)[1] + 1].owner_nation_id
                           = nation_id],
                    Tail(to_claim), nation_id)

\* Simulation::try_nation_expansion
try_nation_expansion(c, nation_id) ==
    LET current_tiles == c.nations[nation_id].controlled_tiles
    IN { LET expansion_candidates == ExpansionCandidates(c.world, current_tiles, order, 1)
             to_claim == SubSeq(expansion_candidates, 1, Min(3, Len(expansion_candidates)))
         IN [c EXCEPT !.nations[nation_id].controlled_tiles = @ \cup SeqRange(to_claim),
                      !.world = ClaimTiles(@, to_claim, nation_id)]
         : order \in KeyOrders(current_tiles) }

\* process_nations, the loop over the living nations in one key order.  The
\* test stability > 0.5 && gen_bool(0.02) is a draw: the stability is not kept.
RECURSIVE NationLoop(_, _, _)
NationLoop(c, order, i) ==
    IF i > Len(order) THEN {c}
    ELSE UNION { NationLoop(next, order, i + 1)
                 : next \in {c} \cup try_nation_expansion(c, order[i]) }

\* Nation::declare_war, the war relation (the stability and the relation
\* record are not kept)
declare_war(nation, target_id) ==
    [nation EXCEPT !.at_war_with = @ \cup {target_id}]

\* Nation::make_peace, the war relation
make_peace(nation, target_id) ==
    [nation EXCEPT !.at_war_with = @ \ {target_id}]

\* process_diplomacy, the neighbour test of two nations: a tile of the first
\* has a neighbour among the tiles of the second (simulation.rs:662-681)
are_neighbors(c, id_a, id_b) ==
    \E t \in c.nations[id_a].controlled_tiles :
        \E pos \in SeqRange(get_neighbors(c.world, t[1], t[2])) :
            pos \in c.nations[id_b].controlled_tiles

\* The pairs (nations[i], nations[j]), i < j, of the double loop, in order
PairsOf(order) ==
    LET RECURSIVE From(_, _)
        From(i, j) ==
            IF i > Len(order) THEN <<>>
            ELSE IF j > Len(order) THEN From(i + 1, i + 2)
            ELSE << <<order[i], order[j]>> >> \o From(i, j + 1)
    IN From(1, 2)

\* Variant of the declaration loop that tests nothing but the neighbours and
\* enters the war on the attacker's side only
RECURSIVE DeclarationLoop_onesided(_, _, _, _)
DeclarationLoop_onesided(c, pairs, k, declared) ==
    IF k > Len(pairs) THEN {[c |-> c, declared |-> declared]}
    ELSE LET id_a == pairs[k][1]
             id_b == pairs[k][2]
             at_war == [c EXCEPT !.nations[id_a] = declare_war(@, id_b)]
         IN UNION { DeclarationLoop_onesided(next.c, pairs, k + 1, next.declared)
                    : next \in {[c |-> c, declared |-> declared]}
                               \cup (IF are_neighbors(c, id_a, id_b)
                                     THEN {[c |-> at_war,
                                            declared |-> Append(declared, pairs[k])]}
                                     ELSE {}) }

\* process_diplomacy, the double loop from pair k on (simulation.rs:656-711);
\* declared collects the (attacker, defender) pairs of the wars declared
RECURSIVE DeclarationLoop(_, _, _, _)
DeclarationLoop(c, pairs, k, declared) ==
    IF k > Len(pairs) THEN {[c |-> c, declared |-> declared]}
    ELSE LET id_a == pairs[k][1]
             id_b == pairs[k][2]
             at_war == [c EXCEPT !.nations[id_a] = declare_war(@, id_b),
                                 !.nations[id_b].at_war_with = @ \cup {id_a}]
         IN UNION { DeclarationLoop(next.c, pairs, k + 1, next.declared)
                    : next \in {[c |-> c, declared |-> declared]}
                               \cup (IF /\ are_neighbors(c, id_a, id_b)
                                        /\ id_b \notin c.nations[id_a].at_war_with
                                     THEN {[c |-> at_war,
                                            declared |-> Append(declared, pairs[k])]}
                                     ELSE {}) }

\* The pair of a nation and its war target, the smaller id first
WarPair(id, war_target) ==
    IF id < war_target THEN <<id, war_target>> ELSE <<war_target, id>>

\* get_wars, the inner loop over the targets of one nation from target k on:
\* the pairs not seen before are pushed
RECURSIVE PushUnseen(_, _, _, _)
PushUnseen(id, targets, k, wars) ==
    IF k > Len(targets) THEN wars
    ELSE LET pair == WarPair(id, targets[k])
         IN PushUnseen(id, targets, k + 1,
                       IF pair \in SeqRange(wars) THEN wars ELSE Append(wars, pair))

\* Variant of the inner loop that pushes every pair
RECURSIVE PushAllPairs(_, _, _, _)
PushAllPairs(id, targets, k, wars) ==
    IF k > Len(targets) THEN wars
    ELSE PushAllPairs(id, targets, k + 1, Append(wars, WarPair(id, targets[k])))

\* Variant of get_wars that lists a pair once for each side naming the other
get_wars_bothsides(nations) ==
    LET RECURSIVE Walk(_, _, _)
        Walk(order, k, wars) ==
            IF k > Len(order) THEN {wars}
            ELSE UNION { Walk(order, k + 1, PushAllPairs(order[k], targets, 1, wars))
                         : targets \in KeyOrders(nations[order[k]].at_war_with) }
    IN UNION { Walk(order, 1, <<>>) : order \in KeyOrders(DOMAIN nations) }

\* NationManager::get_wars: the lists the walk over the nations and over
\* each at_war_with set can give, one per order of the hash containers
get_wars(nations) ==
    LET RECURSIVE Walk(_, _, _)
        Walk(order, k, wars) ==
            IF k > Len(order) THEN {wars}
            ELSE UNION { Walk(order, k + 1, PushUnseen(order[k], targets, 1, wars))
                         : targets \in KeyOrders(nations[order[k]].at_war_with) }
    IN UNION { Walk(order, 1, <<>>) : order \in KeyOrders(DOMAIN nations) }

\* process_wars, the loop from war k on (simulation.rs:719-765); ended
\* collects the pairs whose war has ended
RECURSIVE WarLoop(_, _, _, _)
WarLoop(c, wars, k, ended) ==
    IF k > Len(wars) THEN {[c |-> c, ended |-> ended]}
    ELSE LET nation_a == wars[k][1]
             nation_b == wars[k][2]
             peace == [c EXCEPT !.nations[nation_a] = make_peace(@, nation_b),
                                !.nations[nation_b].at_war_with = @ \ {nation_a}]
         IN UNION { WarLoop(next.c, wars, k + 1, next.ended)
                    : next \in {[c |-> c, ended |-> ended],
                                [c |-> peace, ended |-> Append(ended, wars[k])]} }

\* Simulation::process_wars
process_wars(c) ==
    UNION { WarLoop(c, wars, 1, <<>>) : wars \in get_wars(c.nations) }

\* Simulation::process_diplomacy, with what each of its two parts did:
\* [declared, after_declarations, ended, c]
DiplomacyRuns(c) ==
    LET alive == {id \in DOMAIN c.nations : c.nations[id].is_alive}
    IN UNION { UNION { { [declared |-> d.declared,
                          after_declarations |-> d.c.nations,
                          ended |-> w.ended,
                          c |-> w.c]
                        : w \in process_wars(d.c) }
                      : d \in DeclarationLoop(c, PairsOf(order), 1, <<>>) }
               : order \in KeyOrders(alive) }

\* Simulation::process_diplomacy
process_diplomacy(c) == {run.c : run \in DiplomacyRuns(c)}

\* Simulation::process_nations
process_nations(c) ==
    LET ticked == [c EXCEPT !.nations = nations_tick(@)]
        alive == {id \in DOMAIN ticked.nations : ticked.nations[id].is_alive}
    IN UNION { UNION { process_diplomacy(looped) : looped \in NationLoop(ticked, order, 1) }
               : order \in KeyOrders(alive) }

\* The sum of the populations of the settlements of a set of ids
RECURSIVE PopulationOf(_, _)
PopulationOf(settlements, ids) ==
    IF ids = {} THEN 0
    ELSE LET id == CHOOSE i \in ids : TRUE
         IN settlements[id].population + PopulationOf(settlements, ids \ {id})

\* Simulation::process_cultures: the counts are recomputed from the settlements
process_cultures(c) ==
    [c EXCEPT !.cultures =
        [id \in DOMAIN c.cultures |->
            LET members == {s \in DOMAIN c.settlements :
                               c.settlements[s].primary_culture_id = id}
            IN [c.cultures[id] EXCEPT
                  !.population = PopulationOf(c.settlements, members),
                  !.settlements = Cardinality(members)]]]

\* Religion::create_schism
create_schism(parent) ==
    [parent EXCEPT !.follower_count = 0,
                   !.settlement_count = 0,
                   !.prestige = (parent.prestige * 3) \div 10,
                   !.fervor = Min(parent.fervor + 20, 100)]

\* ReligionManager::tick, the schisms of the religions from id on
RECURSIVE SchismLoop(_, _, _)
SchismLoop(religions, id, last) ==
    IF id > last THEN {religions}
    ELSE UNION { SchismLoop(next, id + 1, last)
                 : next \in {religions} \cup
                     (IF religions[id].follower_count > 100000
                      THEN {Append(religions, create_schism(religions[id]))}
                      ELSE {}) }

\* ReligionManager::tick
religions_tick(religions) ==
    { [id \in DOMAIN split |->
          [split[id] EXCEPT
             !.prestige = Clamp((@ * 99) \div 100 + split[id].follower_count \div 10,
                                1000, 1000000)]]
      : split \in SchismLoop(religions, 1, Len(religions)) }

\* ReligionManager::get_spreading_religions: the ids that can come first
\* after the sort by descending influence
get_spreading_religions(religions) ==
    LET influence(id) ==
            religions[id].prestige * religions[id].fervor
            * conversion_rate(religions[id].religion_type)
        spreading == {id \in DOMAIN religions : influence(id) > 1000000}
    IN {id \in spreading : \A other \in spreading : influence(other) <= influence(id)}

\* process_religions, the recount of the followers from the settlements
CountFollowers(c) ==
    [c EXCEPT !.religions =
        [id \in DOMAIN c.religions |->
            LET members == {s \in DOMAIN c.settlements :
                               c.settlements[s].primary_religion_id = id}
            IN [c.religions[id] EXCEPT
                  !.follower_count = PopulationOf(c.settlements, members),
                  !.settlement_count = Cardinality(members)]]]

\* process_religions, the spread to the settlements from id on
RECURSIVE SpreadLoop(_, _)
SpreadLoop(c, id) ==
    IF id > Len(c.settlements) THEN {c}
    ELSE UNION { SpreadLoop(next, id + 1)
                 : next \in {c} \cup
                     (IF c.settlements[id].primary_religion_id = NoId
                      THEN {[c EXCEPT !.settlements[id].primary_religion_id = religion_id]
                            : religion_id \in get_spreading_religions(c.religions)}
                      ELSE {}) }

\* Simulation::process_religions
process_religions(c) ==
    UNION { SpreadLoop(CountFollowers([c EXCEPT !.religions = religions]), 1)
            : religions \in religions_tick(c.religions) }

\* Samples of the plague mortality rng.gen_range(0.05..0.3), in percent
Mortalities == {5, 29}

\* Simulation::process_random_events: the plague; the famine only writes
\* to the event log
process_random_events(c) ==
    {c} \cup
    (IF c.total_population > 100000
     THEN { [c EXCEPT !.settlements =
                [id \in DOMAIN c.settlements |->
                    [c.settlements[id] EXCEPT
                       !.population = @ - (@ * mortality) \div 100]]]
            : mortality \in Mortalities }
     ELSE {})

\* Simulation::update_statistics
update_statistics(c) ==
    [c EXCEPT
       !.total_population = PopulationOf(c.settlements, DOMAIN c.settlements),
       !.nations =
           [id \in DOMAIN c.nations |->
               [c.nations[id] EXCEPT
                  !.total_population =
                      SumSeq([k \in DOMAIN c.nations[id].settlements |->
                                 IF c.nations[id].settlements[k] \in DOMAIN c.settlements
                                 THEN c.settlements[c.nations[id].settlements[k]].population
                                 ELSE 0])]]]

\* Simulation::tick
civ_tick(c) ==
    UNION { UNION { UNION { UNION {
        { update_statistics(c5)
          : c5 \in process_random_events(c4) }
        : c4 \in process_religions(process_cultures(c3)) }
        : c3 \in process_nations(c2) }
        : c2 \in process_settlements(c1) }
        : c1 \in process_populations([c EXCEPT !.current_year = @ + 1]) }

\* The string "{}" both tile queries answer with when there is no such tile
EmptyJson == [json |-> "{}"]

\* A panic of the call: an index out of bounds
Panicked == [panic |-> TRUE]

\* Variant of get_tile_info_json whose bounds test lets the first column and
\* row past the edge through.
get_tile_info_json_strict(s, x, y) ==
    IF y > s.config.world_height \/ x > s.config.world_width THEN EmptyJson
    ELSE IF <<x, y>> \notin DOMAIN s.terrain \/ <<x, y>> \notin DOMAIN s.ecosystems
         THEN Panicked
         ELSE [x |-> x,
               y |-> y,
               biome |-> s.terrain[<<x, y>>].biome,
               temperature |-> s.terrain[<<x, y>>].temperature,
               rainfall |-> s.terrain[<<x, y>>].rainfall,
               plant_biomass |-> s.ecosystems[<<x, y>>].plant_biomass,
               creatures |->
                   LET here == SelectSeq(s.creatures,
                                         LAMBDA c : c.alive /\ c.x = x /\ c.y = y)
                   IN [i \in 1..Min(20, Len(here)) |-> here[i].id]]

\* Simulation::get_tile_info_json of the ecosystem simulation.  Indexing
\* terrain[y][x] or ecosystems[y][x] outside the grid panics.
get_tile_info_json(s, x, y) ==
    IF y >= s.config.world_height \/ x >= s.config.world_width THEN EmptyJson
    ELSE IF <<x, y>> \notin DOMAIN s.terrain \/ <<x, y>> \notin DOMAIN s.ecosystems
         THEN Panicked
         ELSE [x |-> x,
               y |-> y,
               biome |-> s.terrain[<<x, y>>].biome,
               temperature |-> s.terrain[<<x, y>>].temperature,
               rainfall |-> s.terrain[<<x, y>>].rainfall,
               plant_biomass |-> s.ecosystems[<<x, y>>].plant_biomass,
               creatures |->
                   LET here == SelectSeq(s.creatures,
                                         LAMBDA c : c.alive /\ c.x = x /\ c.y = y)
                   IN [i \in 1..Min(20, Len(here)) |-> here[i].id]]

\* Simulation::get_tile_info_json of the civilization simulation
civ_get_tile_info_json(c, x, y) ==
    LET tile == get_tile(c.world, x, y)
    IN IF tile = NoTile THEN EmptyJson
       ELSE [x |-> x,
             y |-> y,
             biome |-> tile.biome,
             altitude |-> tile.altitude,
             is_river |-> tile.is_river,
             is_coastal |-> tile.is_coastal,
             resources |-> tile.resources,
             settlement_population |->
                 IF tile.settlement_id \in DOMAIN c.settlements
                 THEN c.settlements[tile.settlement_id].population
                 ELSE NoId,
             nation |->
                 IF tile.owner_nation_id \in DOMAIN c.nations
                 THEN tile.owner_nation_id
                 ELSE NoId]

\* The wasm module before init_simulation: no civilization simulation
NoCivilization == [none |-> TRUE]

\* A generated world of two rows and two columns: grassland on a river and
\* forest above open sea and hills.  Every land tile scores above 20.
SmallWorld ==
    CivWorld(<< << CivTile("Grassland", 30, 80, TRUE, TRUE, <<"Grain">>),
                   CivTile("Forest", 45, 60, FALSE, TRUE, <<>>) >>,
                << CivTile("Ocean", -20, 0, FALSE, FALSE, <<>>),
                   CivTile("Hills", 70, 40, FALSE, FALSE, <<"Stone">>) >> >>)

\* A generated world of one row: a grassland tile between two sea tiles
IslandWorld ==
    CivWorld(<< << CivTile("Ocean", -20, 0, FALSE, FALSE, <<>>),
                   CivTile("Grassland", 30, 90, FALSE, TRUE, <<>>),
                   CivTile("Ocean", -35, 0, FALSE, FALSE, <<>>) >> >>)

\* The aggregates as the last tick left them: every count agrees with the
\* settlements
Recounted(c) == update_statistics(CountFollowers(process_cultures(c)))

\* A simulation held by a client of the crate (every field of the struct is
\* pub): the settlements of a constructed simulation have grown to the
\* given populations
Grown(c, populations) ==
    Recounted([c EXCEPT !.settlements =
                  [id \in DOMAIN c.settlements |->
                      [c.settlements[id] EXCEPT
                         !.population = populations[id],
                         !.food_stored = 100 * populations[id]]]])

\* The constructed simulations over the small world where every group
\* founded a settlement and stays
SettledSimulations ==
    {c \in CivSimulationNew(SmallWorld) :
        /\ Len(c.settlements) = 3
        /\ \A i \in DOMAIN c.populations :
              ~c.populations[i].is_nomadic /\ c.populations[i].size = 199}

\* A simulation in which the settlement of id has a religion and the
\* settlement of id is the capital of a nation holding its tile
Organised(c, id) ==
    LET s == c.settlements[id]
        nation_id == Len(c.nations) + 1
        religion_id == Len(c.religions) + 1
    IN Recounted(
         [c EXCEPT
            !.religions = Append(@, ReligionNew("Polytheism", 79)),
            !.nations = Append(@, [NationNew(<<s.x, s.y>>) EXCEPT
                                      !.capital_id = id,
                                      !.settlements = <<id>>]),
            !.settlements[id].primary_religion_id = religion_id,
            !.settlements[id].owner_nation_id = nation_id,
            !.world = set_tile_ids(@, s.x, s.y, id, nation_id)])

\* The simulations a run starts from: constructed ones, and ones held by a
\* client after the settlements have grown
CivScenarios ==
    CivSimulationNew(IslandWorld)
    \cup CivSimulationNew(SmallWorld)
    \cup { Grown(c, <<1200, 600, 100>>) : c \in SettledSimulations }
    \cup { Organised(Grown(c, <<120000, 600, 100>>), 1) : c \in SettledSimulations }

(***************************************************************************)
(* civ-sim world.rs, generate_rivers.  A world has a river only from 2000  *)
(* tiles on (num_rivers = width * height / 2000), so the worlds below have *)
(* two rows of a thousand tiles or more; a world is kept as a rule giving  *)
(* the altitude of tile (x, y), in thousandths, instead of the tile grid.  *)
(* river is the state of one pass of the outer loop: the world, the tile   *)
(* (x, y) the trace stands on, the steps taken, the tiles visited in       *)
(* order, the tiles marked is_river and whether the while loop has ended.  *)
(***************************************************************************)
\* No world is being generated
NoRiver == [none |-> TRUE]

\* while steps < 200
MaxRiverSteps == 200

\* tile.altitude < 1.5 of the start of a river, in thousandths
MaxStartAltitude == 1500

\* The altitude levels of the pattern worlds, in thousandths: sea level and
\* three heights of land, one of them too high for a start
AltitudeLevels == {0, 300, 900, 1600}

\* The width of a pattern: the pattern worlds repeat it along each row
PatternWidth == 3

\* A world whose two rows repeat a pattern of altitudes
PatternWorld(pattern) ==
    [width |-> 334 * PatternWidth, height |-> 2, kind |-> "pattern", pattern |-> pattern]

\* A world whose upper row climbs by one thousandth per tile from the sea
\* on column 0 and falls back to the sea on the last columns, under a
\* lower row of high ground
RampWorld == [width |-> 1000, height |-> 2, kind |-> "ramp", pattern |-> <<>>]

\* self.tiles[y][x].altitude
AltitudeAt(world, x, y) ==
    IF world.kind = "pattern" THEN world.pattern[y + 1][(x % PatternWidth) + 1]
    ELSE IF y = 1 THEN 2000
    ELSE IF x = 0 THEN -50
    ELSE IF x >= world.width - 2 THEN -100
    ELSE x

\* The four offsets of the river trace, in its order
RiverOffsets == << <<-1, 0>>, <<1, 0>>, <<0, -1>>, <<0, 1>> >>

\* The neighbour of (x, y) by the k-th offset: x wraps, y is clamped
RiverNeighbor(world, x, y, k) ==
    << (x + RiverOffsets[k][1] + world.width) % world.width,
       Clamp(y + RiverOffsets[k][2], 0, world.height - 1) >>

\* Variant of LowestNeighbor that also takes a neighbour of equal altitude.
RECURSIVE LowestNeighbor_lax(_, _, _, _, _)
LowestNeighbor_lax(world, x, y, k, best) ==
    IF k > Len(RiverOffsets) THEN best
    ELSE LET n == RiverNeighbor(world, x, y, k)
         IN LowestNeighbor_lax(world, x, y, k + 1,
                IF AltitudeAt(world, n[1], n[2]) <= AltitudeAt(world, best[1], best[2])
                THEN n ELSE best)

\* The search for the lowest neighbour from the k-th offset on; best is
\* (next_x, next_y), whose altitude is lowest_alt
RECURSIVE LowestNeighbor(_, _, _, _, _)
LowestNeighbor(world, x, y, k, best) ==
    IF k > Len(RiverOffsets) THEN best
    ELSE LET n == RiverNeighbor(world, x, y, k)
         IN LowestNeighbor(world, x, y, k + 1,
                IF AltitudeAt(world, n[1], n[2]) < AltitudeAt(world, best[1], best[2])
                THEN n ELSE best)

\* The tiles the twenty draws can leave as best_start: any tile with
\* 0 < altitude < 1.5 (the highest of the drawn ones)
RiverStarts(world, columns) ==
    {t \in columns \X (0..(world.height - 1)) :
        /\ AltitudeAt(world, t[1], t[2]) > 0
        /\ AltitudeAt(world, t[1], t[2]) < MaxStartAltitude}

\* The trace before the first pass of the while loop
RiverAt(world, start) ==
    [world |-> world,
     x |-> start[1],
     y |-> start[2],
     steps |-> 0,
     path |-> <<start>>,
     marked |-> {},
     ended |-> FALSE]

\* One pass of the while loop of generate_rivers
river_step(r) ==
    IF r.steps >= MaxRiverSteps THEN [r EXCEPT !.ended = TRUE]
    ELSE IF AltitudeAt(r.world, r.x, r.y) <= 0 THEN [r EXCEPT !.ended = TRUE]
    ELSE LET marked == r.marked \cup {<<r.x, r.y>>}
             next == LowestNeighbor(r.world, r.x, r.y, 1, <<r.x, r.y>>)
         IN IF next = <<r.x, r.y>>
            THEN [r EXCEPT !.marked = marked, !.ended = TRUE]
            ELSE [r EXCEPT !.marked = marked,
                           !.x = next[1],
                           !.y = next[2],
                           !.steps = @ + 1,
                           !.path = Append(@, next)]

(***************************************************************************)
(* civ-sim technology.rs: the research state of a nation.  Research        *)
(* points, progress and costs are in tenths of a point.  The tech tree is  *)
(* the part of TechTree::new made of Fire Making, Tool Making, Hunting and *)
(* Bronze Working, closed under prerequisites.                             *)
(***************************************************************************)
\* No research state is being observed
NoResearch == [none |-> TRUE]

\* No technology: Option::None of a TechnologyId
NoTech == 0

\* TechEra as its position in the enum
StoneAge == 0
BronzeAge == 1

\* TechEra::research_modifier, in tenths
research_modifier(era) ==
    CASE era = StoneAge -> 10
      [] era = BronzeAge -> 15

\* A Technology: era, research_cost in whole points, prerequisites
Technology(era, research_cost, prerequisites) ==
    [era |-> era, research_cost |-> research_cost, prerequisites |-> prerequisites]

\* TechTree::new, technologies 1, 2, 3 and 100
TechTreeNew ==
    (1 :> Technology(StoneAge, 10, {}))
    @@ (2 :> Technology(StoneAge, 15, {}))
    @@ (3 :> Technology(StoneAge, 20, {2}))
    @@ (100 :> Technology(BronzeAge, 80, {2, 1}))

\* ResearchState::new
ResearchStateNew ==
    [researched_technologies |-> {},
     current_research |-> NoTech,
     research_progress |-> 0,
     accumulated_research_points |-> 0,
     current_era |-> StoneAge]

\* TechTree::get_available, as the set of ids
get_available(tech_tree, researched) ==
    {id \in DOMAIN tech_tree :
        /\ id \notin researched
        /\ tech_tree[id].prerequisites \subseteq researched}

\* Variant of start_research without the test of the prerequisites
start_research_unchecked(rs, tech_id, tech_tree) ==
    IF /\ tech_id \in DOMAIN tech_tree
       /\ tech_id \notin rs.researched_technologies
    THEN [rs EXCEPT !.current_research = tech_id, !.research_progress = 0]
    ELSE rs

\* ResearchState::start_research; the state after the call
start_research(rs, tech_id, tech_tree) ==
    IF /\ tech_id \in DOMAIN tech_tree
       /\ tech_id \notin rs.researched_technologies
       /\ tech_tree[tech_id].prerequisites \subseteq rs.researched_technologies
    THEN [rs EXCEPT !.current_research = tech_id, !.research_progress = 0]
    ELSE rs

\* Variant of add_research_points that completes a technology whatever its
\* progress
add_research_points_free(rs, points, tech_tree) ==
    LET added == [rs EXCEPT !.accumulated_research_points = @ + points]
        tech_id == rs.current_research
    IN IF tech_id # NoTech /\ tech_id \in DOMAIN tech_tree
       THEN [added EXCEPT
               !.researched_technologies = @ \cup {tech_id},
               !.current_research = NoTech,
               !.research_progress = 0,
               !.current_era = Max(@, tech_tree[tech_id].era)]
       ELSE added

\* ResearchState::add_research_points; the state after the call
add_research_points(rs, points, tech_tree) ==
    LET added == [rs EXCEPT !.accumulated_research_points = @ + points]
        tech_id == rs.current_research
    IN IF tech_id # NoTech /\ tech_id \in DOMAIN tech_tree
       THEN LET research_progress == rs.research_progress + points
                cost == tech_tree[tech_id].research_cost
                          * research_modifier(tech_tree[tech_id].era)
            IN IF research_progress >= cost
               THEN [added EXCEPT
                       !.researched_technologies = @ \cup {tech_id},
                       !.current_research = NoTech,
                       !.research_progress = 0,
                       !.current_era = Max(@, tech_tree[tech_id].era)]
               ELSE [added EXCEPT !.research_progress = research_progress]
       ELSE added

\* process_nations, the research of one nation: the points of its
\* settlements are added and, when nothing is being researched, one of the
\* available technologies is started (simulation.rs:419-455)
nation_research(rs, research_points, tech_tree) ==
    LET added == add_research_points(rs, research_points, tech_tree)
        available == get_available(tech_tree, added.researched_technologies)
    IN IF added.current_research = NoTech /\ available # {}
       THEN {start_research(added, id, tech_tree) : id \in available}
       ELSE {added}

(***************************************************************************)
(* Specifications.                                                         *)
(***************************************************************************)
\* No constructor or accessor call is being observed.
NoProbe == [call |-> "none"]

InitHistory ==
    /\ history = HistoryNew
    /\ hist_pruned = FALSE
    /\ hist_alt = TRUE
    /\ civ = NoCivilization
    /\ river = NoRiver
    /\ research = NoResearch
    /\ sim = IdleSimulation
    /\ random_state = [a |-> 0, b |-> 0]
    /\ probe = NoProbe

\* One call of record(event) by a client of the history manager.
Record(event) ==
    /\ history.total_events < MaxRecords
    /\ history' = record(history, event)
    /\ hist_pruned' = (Len(history.events) >= history.max_events)
    /\ hist_alt' = (hist_alt /\ (history.events = <<>>
                                 \/ IsLow(event) # IsLow(history.events[Len(history.events)])))
    /\ UNCHANGED <<ecoVars, civ, river, research>>

NextHistory == \E event \in EventInputs : Record(event)

SpecHistory == InitHistory /\ [][NextHistory]_vars

\* Simulation::new(seed, config) for the scenarios
InitEco ==
    /\ \E sc \in Scenarios :
         sim \in SimulationNew(sc.config, sc.terrain, Herbivores, Carnivores)
    /\ random_state = [a |-> 0, b |-> 0]
    /\ probe = NoProbe
    /\ history = HistoryNew
    /\ hist_pruned = FALSE
    /\ hist_alt = TRUE
    /\ civ = NoCivilization
    /\ river = NoRiver
    /\ research = NoResearch

\* One call of Simulation::tick
Tick ==
    /\ sim.tick < MaxTick
    /\ sim' \in TickResults(sim)
    /\ UNCHANGED <<random_state, probe, histVars, civ, river, research>>

NextEco == Tick

SpecEco == InitEco /\ [][NextEco]_vars

\* Two instances built from the same seed and config
InitTwin ==
    /\ \E sc \in TwinScenarios :
         sim \in SimulationNew(sc.config, sc.terrain, Herbivores, Carnivores)
    /\ random_state \in [a : RandomStates, b : RandomStates]
    /\ probe = NoProbe
    /\ history = HistoryNew
    /\ hist_pruned = FALSE
    /\ hist_alt = TRUE
    /\ civ = NoCivilization
    /\ river = NoRiver
    /\ research = NoResearch

SpecTwin == InitTwin /\ [][NextEco]_vars

\* A herbivore starter genome with the shortest life (LONGEVITY 0: max_age 50).
HerbOld == Genome(<<2, 3, 0, 0, 0, 9, 0, 0, 0, 9, 4, 9, 9, 0>>)

\* A herbivore starter genome without heat tolerance (the generator draws
\* the gene from 0..1): its phenotype bears no more than -5 degrees.
HerbHot == Genome(<<2, 3, 0, 0, 0, 0, 0, 0, 5, 9, 4, 9, 9, 0>>)

\* The (config, world) pairs of the long runs: one creature or none.
LongScenarios ==
    { [config |-> SimConfig(1, 1, 1, 0, 1, 3, 3), terrain |-> RainforestWorld],
      [config |-> SimConfig(1, 1, 1, 0, 1, 3, 3), terrain |-> DesertWorld],
      [config |-> SimConfig(1, 1, 1, 1, 2, 3, 3), terrain |-> OceanWorld] }

\* Simulation::new(seed, config) for the long runs
InitLong ==
    /\ \E sc \in LongScenarios :
         sim \in SimulationNew(sc.config, sc.terrain, {HerbOld, HerbHot}, Carnivores)
    /\ random_state = [a |-> 0, b |-> 0]
    /\ probe = NoProbe
    /\ history = HistoryNew
    /\ hist_pruned = FALSE
    /\ hist_alt = TRUE
    /\ civ = NoCivilization
    /\ river = NoRiver
    /\ research = NoResearch

\* One call of Simulation::tick in a long run
TickLong ==
    /\ sim.tick < MaxLongTick
    /\ sim' \in TickResults(sim)
    /\ UNCHANGED <<random_state, probe, histVars, civ, river, research>>

NextLong == TickLong

SpecLong == InitLong /\ [][NextLong]_vars

\* World::generate(width, height, seed) panics: generate_continents draws
\* from the ranges 0.0..width*14/15 and height/6..height*5/6, and gen_range
\* panics on an empty range.
generate_panics(width, height) == width = 0 \/ height = 0

\* The configs handed to Simulation::new, valid and not: 0 or 1 tiles each
\* way, max_creatures 0 or 3, speciation_threshold (hundredths) below, at
\* and above the ends of (0, 1].
ConfigInputs ==
    { [SimConfig(w, h, 1, 0, 1, max_creatures, 3) EXCEPT !.speciation_threshold = threshold] :
        w \in {0, 1}, h \in {0, 1}, max_creatures \in {0, 3},
        threshold \in {-10, 0, 32, 100, 150} }

\* No simulation was constructed.
NoSimulation == [constructed |-> FALSE]

\* Simulation::new(seed, config) for the configs of ConfigInputs: the call
\* panics in World::generate or returns the simulation; Simulation::new
\* itself reads no field of the config to validate it.
InitConfig ==
    /\ \E config \in ConfigInputs :
         IF generate_panics(config.world_width, config.world_height)
         THEN /\ sim = NoSimulation
              /\ probe = [call |-> "new", config |-> config, constructed |-> FALSE]
         ELSE /\ sim \in SimulationNew(config, RainforestWorld, Herbivores, Carnivores)
              /\ probe = [call |-> "new", config |-> config, constructed |-> TRUE]
    /\ random_state = [a |-> 0, b |-> 0]
    /\ history = HistoryNew
    /\ hist_pruned = FALSE
    /\ hist_alt = TRUE
    /\ civ = NoCivilization
    /\ river = NoRiver
    /\ research = NoResearch

\* One call of Simulation::tick on a constructed simulation
TickConstructed ==
    /\ probe.constructed
    /\ sim.tick < MaxTick
    /\ sim' \in TickResults(sim)
    /\ UNCHANGED <<random_state, probe, histVars, civ, river, research>>

NextConfig == TickConstructed

SpecConfig == InitConfig /\ [][NextConfig]_vars

\* The widths of the worlds movement and distance are exercised on: the
\* small ones, and for the distance the ones around the last width f32 holds
\* exactly.
MaxWidth == 5

MoveWidths == 1..MaxWidth

DistanceWidths == MoveWidths \cup {F32_EXACT_MAX - 1, F32_EXACT_MAX, F32_EXACT_MAX + 1}

\* The columns next to the seam of a world of the given width
SeamColumns(world_width) ==
    {x \in {0, 1, 2, world_width - 3, world_width - 2, world_width - 1} :
        0 <= x /\ x < world_width}

InitWrap ==
    /\ probe = NoProbe
    /\ sim = IdleSimulation
    /\ random_state = [a |-> 0, b |-> 0]
    /\ history = HistoryNew
    /\ hist_pruned = FALSE
    /\ hist_alt = TRUE
    /\ civ = NoCivilization
    /\ river = NoRiver
    /\ research = NoResearch

\* One call of Creature::move_towards_target on a herbivore placed anywhere
\* in a small world, alive or dead, with or without a target; a behaviour
\* observes one call
MoveStep ==
    /\ probe = NoProbe
    /\ \E world_width \in MoveWidths, world_height \in 1..2, alive \in BOOLEAN :
       \E x \in 0..(world_width - 1), y \in 0..(world_height - 1),
          tx \in {NoTarget} \cup 0..(world_width - 1),
          ty \in {NoTarget} \cup 0..(world_height - 1) :
         LET c == [CreatureNew(1, 1, HerbA, x, y, 0) EXCEPT
                      !.alive = alive, !.target_x = tx, !.target_y = ty]
         IN probe' = [call |-> "move_towards_target",
                      world_width |-> world_width,
                      world_height |-> world_height,
                      before |-> c,
                      after |-> move_towards_target(c, world_width, world_height)]
    /\ UNCHANGED <<sim, random_state, histVars, civ, river, research>>

\* One call of wrapped_distance between two tiles next to the seam
MeasureDistance ==
    /\ probe = NoProbe
    /\ \E world_width \in DistanceWidths :
       \E x1, x2 \in SeamColumns(world_width), y1, y2 \in 0..1 :
         probe' = [call |-> "wrapped_distance",
                   x1 |-> x1, y1 |-> y1, x2 |-> x2, y2 |-> y2,
                   world_width |-> world_width,
                   result |-> wrapped_distance(x1, y1, x2, y2, world_width)]
    /\ UNCHANGED <<sim, random_state, histVars, civ, river, research>>

NextWrap == MoveStep \/ MeasureDistance

SpecWrap == InitWrap /\ [][NextWrap]_vars

\* The longest run of the civilization simulation, in ticks
MaxCivTick == 2

\* A civilization simulation, constructed or held by a client
InitCiv ==
    /\ civ \in CivScenarios
    /\ river = NoRiver
    /\ research = NoResearch
    /\ sim = IdleSimulation
    /\ random_state = [a |-> 0, b |-> 0]
    /\ probe = NoProbe
    /\ history = HistoryNew
    /\ hist_pruned = FALSE
    /\ hist_alt = TRUE

\* One call of Simulation::tick of the civilization simulation
CivTick ==
    /\ civ # NoCivilization
    /\ civ.current_year < START_YEAR + MaxCivTick
    /\ civ' \in civ_tick(civ)
    /\ UNCHANGED <<sim, random_state, probe, histVars, river, research>>

NextCiv == CivTick

SpecCiv == InitCiv /\ [][NextCiv]_vars

\* The largest coordinate a tile query is made with
MaxQuery == 3

\* The ticks of the ecosystem simulation before a tile query
MaxQueryTick == 4

\* The coordinates of the tile queries: inside every world and past its edges
QueryCoordinates == 0..MaxQuery

\* Either simulator, constructed, before its first tick
InitTile ==
    /\ \/ /\ sim \in SimulationNew(SimConfig(2, 1, 1, 0, 1, 3, 3), CoastWorld,
                                   Herbivores, Carnivores)
          /\ civ = NoCivilization
       \/ /\ sim = IdleSimulation
          /\ civ \in CivSimulationNew(IslandWorld) \cup SettledSimulations
    /\ random_state = [a |-> 0, b |-> 0]
    /\ probe = NoProbe
    /\ history = HistoryNew
    /\ hist_pruned = FALSE
    /\ hist_alt = TRUE
    /\ river = NoRiver
    /\ research = NoResearch

\* One call of get_tile_info_json(x, y) of the ecosystem simulation (&self)
QueryTile ==
    /\ probe = NoProbe
    /\ \E x, y \in QueryCoordinates :
         probe' = [call |-> "get_tile_info_json",
                   x |-> x,
                   y |-> y,
                   result |-> get_tile_info_json(sim, x, y)]
    /\ UNCHANGED <<sim, random_state, histVars, civ, river, research>>

\* One call of get_tile_info_json(x, y) of the civilization simulation (&self)
CivQueryTile ==
    /\ probe = NoProbe
    /\ civ # NoCivilization
    /\ \E x, y \in QueryCoordinates :
         probe' = [call |-> "civ_get_tile_info_json",
                   x |-> x,
                   y |-> y,
                   result |-> civ_get_tile_info_json(civ, x, y)]
    /\ UNCHANGED <<sim, random_state, histVars, civ, river, research>>

\* The simulators run for a while, then one query is made
NextTile ==
    \/ (probe = NoProbe /\ sim.tick < MaxQueryTick /\ Tick)
    \/ (probe = NoProbe /\ CivTick)
    \/ QueryTile
    \/ CivQueryTile

SpecTile == InitTile /\ [][NextTile]_vars

\* The columns a river starts on in the ramp world: near the sea, and far
\* enough up for the step cap to end the trace
RampStartColumns ==
    {1, 2, MaxRiverSteps - 1, MaxRiverSteps, MaxRiverSteps + 1, MaxRiverSteps + 2, 997}

\* generate_rivers has found the start of a river
InitRiver ==
    /\ \/ \E pattern \in [1..2 -> [1..PatternWidth -> AltitudeLevels]] :
            \E start \in RiverStarts(PatternWorld(pattern), {0, 1, 2, 334 * PatternWidth - 1}) :
              river = RiverAt(PatternWorld(pattern), start)
       \/ \E start \in RiverStarts(RampWorld, RampStartColumns) :
            river = RiverAt(RampWorld, start)
    /\ sim = IdleSimulation
    /\ civ = NoCivilization
    /\ research = NoResearch
    /\ random_state = [a |-> 0, b |-> 0]
    /\ probe = NoProbe
    /\ history = HistoryNew
    /\ hist_pruned = FALSE
    /\ hist_alt = TRUE

\* One pass of the while loop
RiverStep ==
    /\ river # NoRiver
    /\ ~river.ended
    /\ river' = river_step(river)
    /\ UNCHANGED <<sim, random_state, probe, histVars, civ, research>>

NextRiver == RiverStep

SpecRiver == InitRiver /\ [][NextRiver]_vars

\* The longest run with several hunters on a tile, in ticks
MaxHuntTick == 1

\* The (config, world) pairs of the runs with several hunters on one tile:
\* three carnivores of one species, and two herbivores with two carnivores
HuntScenarios ==
    { [config |-> SimConfig(1, 1, 0, 1, 3, 5, 3), terrain |-> RainforestWorld],
      [config |-> SimConfig(1, 1, 1, 1, 2, 5, 3), terrain |-> RainforestWorld] }

\* Simulation::new(seed, config) for the runs with several hunters
InitHunt ==
    /\ \E sc \in HuntScenarios :
         sim \in SimulationNew(sc.config, sc.terrain, {HerbA}, Carnivores)
    /\ random_state = [a |-> 0, b |-> 0]
    /\ probe = NoProbe
    /\ history = HistoryNew
    /\ hist_pruned = FALSE
    /\ hist_alt = TRUE
    /\ civ = NoCivilization
    /\ river = NoRiver
    /\ research = NoResearch

\* One call of Simulation::tick in a run with several hunters
TickHunt ==
    /\ sim.tick < MaxHuntTick
    /\ sim' \in TickResults(sim)
    /\ UNCHANGED <<random_state, probe, histVars, civ, river, research>>

NextHunt == TickHunt

SpecHunt == InitHunt /\ [][NextHunt]_vars

\* The longest run of a herd on one tile, in ticks
MaxHerdTick == 13

\* The (config, world) pairs of the herds: three herbivores of one species
\* on one tile, with room in the store for every child, and one of each of
\* two species
HerdScenarios ==
    { [config |-> SimConfig(1, 1, 1, 0, 3, 20, 3), terrain |-> RainforestWorld],
      [config |-> SimConfig(1, 1, 2, 0, 1, 20, 3), terrain |-> RainforestWorld] }

\* Simulation::new(seed, config) for the herds
InitHerd ==
    /\ \E sc \in HerdScenarios :
         sim \in SimulationNew(sc.config, sc.terrain, {HerbA, HerbB}, Carnivores)
    /\ random_state = [a |-> 0, b |-> 0]
    /\ probe = NoProbe
    /\ history = HistoryNew
    /\ hist_pruned = FALSE
    /\ hist_alt = TRUE
    /\ civ = NoCivilization
    /\ river = NoRiver
    /\ research = NoResearch

\* One call of Simulation::tick on a herd
TickHerd ==
    /\ sim.tick < MaxHerdTick
    /\ sim' \in TickResults(sim)
    /\ UNCHANGED <<random_state, probe, histVars, civ, river, research>>

NextHerd == TickHerd

SpecHerd == InitHerd /\ [][NextHerd]_vars

\* The accumulated research points, in tenths, up to which calls are made
MaxResearchPoints == 3000

\* The ids handed to start_research: the technologies of the tree and an id
\* the tree does not hold
TechInputs == (DOMAIN TechTreeNew) \cup {999}

\* The points handed to add_research_points, in tenths
PointInputs == {0, 100, 250}

\* ResearchState::new of a nation
InitResearch ==
    /\ research = ResearchStateNew
    /\ civ = NoCivilization
    /\ river = NoRiver
    /\ sim = IdleSimulation
    /\ random_state = [a |-> 0, b |-> 0]
    /\ probe = NoProbe
    /\ history = HistoryNew
    /\ hist_pruned = FALSE
    /\ hist_alt = TRUE

\* One call of start_research
StartResearch(tech_id) ==
    /\ research' = start_research(research, tech_id, TechTreeNew)
    /\ UNCHANGED <<sim, random_state, probe, histVars, civ, river>>

\* One call of add_research_points
AddResearchPoints(points) ==
    /\ research.accumulated_research_points < MaxResearchPoints
    /\ research' = add_research_points(research, points, TechTreeNew)
    /\ UNCHANGED <<sim, random_state, probe, histVars, civ, river>>

\* The research of the nation in one pass of process_nations
NationResearch(points) ==
    /\ research.accumulated_research_points < MaxResearchPoints
    /\ research' \in nation_research(research, points, TechTreeNew)
    /\ UNCHANGED <<sim, random_state, probe, histVars, civ, river>>

NextResearch ==
    \/ \E tech_id \in TechInputs : StartResearch(tech_id)
    \/ \E points \in PointInputs : AddResearchPoints(points)
    \/ \E points \in PointInputs : NationResearch(points)

SpecResearch == InitResearch /\ [][NextResearch]_vars

\* The longest run of a creature roaming a world of several tiles, in ticks
MaxRoamTick == 3

\* A herbivore starter genome that senses two tiles far (sense_range 2.4)
HerbFar == Genome(<<2, 3, 2, 0, 0, 9, 0, 0, 5, 9, 4, 9, 9, 0>>)

\* A world of five columns and three rows: grassland around a sea tile
RoamWorld ==
    [t \in {<<x, y>> : x \in 0..4, y \in 0..2} |->
        IF t = <<0, 0>> THEN Cell("Ocean", 10, 1000) ELSE Cell("Grassland", 15, 600)]

\* Simulation::new(seed, config) with one herbivore on the roaming world
InitRoam ==
    /\ sim \in SimulationNew(SimConfig(5, 3, 1, 0, 1, 3, 3), RoamWorld,
                             {HerbA, HerbFar}, Carnivores)
    /\ random_state = [a |-> 0, b |-> 0]
    /\ probe = NoProbe
    /\ history = HistoryNew
    /\ hist_pruned = FALSE
    /\ hist_alt = TRUE
    /\ civ = NoCivilization
    /\ river = NoRiver
    /\ research = NoResearch

\* One call of Simulation::tick on the roaming world
TickRoam ==
    /\ sim.tick < MaxRoamTick
    /\ sim' \in TickResults(sim)
    /\ UNCHANGED <<random_state, probe, histVars, civ, river, research>>

NextRoam == TickRoam

SpecRoam == InitRoam /\ [][NextRoam]_vars

\* A simulation held by a client of the crate: the settlement of id is the
\* capital of a living nation, with the fields as the founding code of
\* process_settlements leaves them (simulation.rs:367-385)
Founded(c, id) ==
    LET s == c.settlements[id]
        nation_id == Len(c.nations) + 1
    IN [c EXCEPT
          !.nations = Append(@, [NationNew(<<s.x, s.y>>) EXCEPT
                                    !.capital_id = id,
                                    !.settlements = <<id>>]),
          !.settlements[id].owner_nation_id = nation_id]

\* The two nations are at war with each other
AtWar(c, id_a, id_b) ==
    [c EXCEPT !.nations[id_a].at_war_with = @ \cup {id_b},
              !.nations[id_b].at_war_with = @ \cup {id_a}]

\* Simulations with living nations on neighbouring tiles: three nations at
\* peace, three nations of which the first two are at war, and two nations
\* next to a settlement without a nation
WarScenarios ==
    UNION { LET grown == Grown(c, <<200, 200, 200>>)
                two == Founded(Founded(grown, 1), 2)
                three == Founded(two, 3)
            IN {Recounted(two), Recounted(three), Recounted(AtWar(three, 1, 2))}
            : c \in SettledSimulations }

\* A civilization simulation with living nations, held by a client
InitWar ==
    /\ civ \in WarScenarios
    /\ river = NoRiver
    /\ research = NoResearch
    /\ sim = IdleSimulation
    /\ random_state = [a |-> 0, b |-> 0]
    /\ probe = NoProbe
    /\ history = HistoryNew
    /\ hist_pruned = FALSE
    /\ hist_alt = TRUE

SpecWar == InitWar /\ [][NextCiv]_vars

(***************************************************************************)
(* Claims about the history log.                                           *)
(***************************************************************************)
Positions(h) == 0..(Len(h.events) - 1)

EventAt(h, p) == h.events[p + 1]

\* C3 (as claimed): after every call of record the log holds at most
\* max_events events.
C3_LogAtMostMaxEvents ==
    Len(history.events) <= history.max_events

\* C8: every event kept by a pruning has importance > 2 (after a record call
\* that pruned, every event but the one just pushed), and every position held
\* by the year, nation, culture or religion index is smaller than the number
\* of events and names an event carrying the key it is filed under.
C8_PrunedImportantIndicesValid ==
    /\ hist_pruned =>
         \A i \in 1..(Len(history.events) - 1) : importance(history.events[i]) > 2
    /\ \A y \in Years : \A p \in SeqRange(history.events_by_year[y]) :
         p \in Positions(history) /\ year(EventAt(history, p)) = y
    /\ \A n \in NationIds : \A p \in SeqRange(history.events_by_nation[n]) :
         p \in Positions(history) /\ n \in ReferencedNations(EventAt(history, p))
    /\ \A c \in CultureIds : \A p \in SeqRange(history.events_by_culture[c]) :
         p \in Positions(history) /\ c \in ReferencedCultures(EventAt(history, p))
    /\ \A r \in ReligionIds : \A p \in SeqRange(history.events_by_religion[r]) :
         p \in Positions(history) /\ r \in ReferencedReligions(EventAt(history, p))

\* C8 witness: a record call pruned, kept an earlier event, and an event of
\* nation 1 recorded since is filed in the nation index.
C8_Witness ==
    /\ hist_pruned
    /\ Len(history.events) >= 2
    /\ history.events_by_nation[1] # <<>>

AlternatingOverflow ==
    hist_alt /\ history.total_events = history.max_events + 1

\* C9 (as claimed): after max_events + 1 records alternating between low
\* (importance <= 2) and high importance, the log holds fewer than
\* max_events + 1 events and every event in it has importance > 2.
C9_AllRetainedImportant ==
    AlternatingOverflow =>
        /\ Len(history.events) < history.max_events + 1
        /\ \A i \in 1..Len(history.events) : importance(history.events[i]) > 2

\* C9 (amended): after max_events + 1 alternating records the log holds fewer
\* than max_events + 1 events and every event in it other than the one just
\* recorded has importance > 2.
C9_AllButLastImportant ==
    AlternatingOverflow =>
        /\ Len(history.events) < history.max_events + 1
        /\ \A i \in 1..(Len(history.events) - 1) : importance(history.events[i]) > 2

\* C9 witness: the alternating stream overflowed, the pruning ran and the
\* event recorded last is a low-importance one that sits in the log.
C9_Witness ==
    /\ AlternatingOverflow
    /\ hist_pruned
    /\ IsLow(history.events[Len(history.events)])

\* C10 (as claimed): the nation index lists exactly the held events that
\* reference the nation, and likewise the culture and religion indices
\* ("reference" read as narrowly as the code allows: the ids record() files
\* an event under).
C10_IdIndicesExact ==
    /\ \A n \in NationIds :
         get_events_for_nation(history, n) =
           SelectSeq(history.events, LAMBDA e : n \in SeqRange(IndexedNations(e)))
    /\ \A c \in CultureIds :
         SeqRange(history.events_by_culture[c]) =
           {p \in Positions(history) : c \in SeqRange(IndexedCultures(EventAt(history, p)))}
    /\ \A r \in ReligionIds :
         SeqRange(history.events_by_religion[r]) =
           {p \in Positions(history) : r \in SeqRange(IndexedReligions(EventAt(history, p)))}

(***************************************************************************)
(* Claims about the ecosystem simulation.                                  *)
(***************************************************************************)
Registry == sim.species_registry

SpeciesIds == DOMAIN Registry.species

\* The number of living creatures of the entity store carrying species id
LivingOf(id) ==
    Cardinality({i \in DOMAIN sim.creatures :
                    sim.creatures[i].alive /\ sim.creatures[i].species_id = id})

\* C1: after construction and after every tick, the population of every
\* species of the registry is the number of living creatures carrying its
\* id, and the species_id of every creature is a key of the registry.
C1_PopulationCountsLiving ==
    /\ \A id \in SpeciesIds : Registry.species[id].population = LivingOf(id)
    /\ \A i \in DOMAIN sim.creatures : HasSpecies(Registry, sim.creatures[i].species_id)

\* C1 witness: births, deaths and a speciation have happened: a species
\* split off from an ancestor holds at least two creatures, of which one was
\* born in a reproduction, and another species has lost its last member.
C1_Witness ==
    /\ \E id \in SpeciesIds :
         /\ Registry.species[id].ancestor_id # NoAncestor
         /\ Registry.species[id].population >= 2
         /\ \E i \in DOMAIN sim.creatures :
              sim.creatures[i].species_id = id /\ sim.creatures[i].generation > 0
    /\ \E id \in SpeciesIds : is_extinct(Registry.species[id])

\* initial species times creatures_per_species
InitialPopulation(config) ==
    (config.initial_herbivore_species + config.initial_carnivore_species)
        * config.creatures_per_species

\* C2 (as claimed): when the initial population is at most max_creatures,
\* the entity store holds at most max_creatures creatures after every tick.
C2_CreaturesAtMostMax ==
    InitialPopulation(sim.config) <= sim.config.max_creatures
        => Len(sim.creatures) <= sim.config.max_creatures

\* C4 (as claimed): two instances built from the same seed and config and
\* advanced by the same number of ticks return the same get_stats_json
\* (the species array in the same order) and the same get_creature_data.
C4_TwinOutputsIdentical ==
    /\ get_stats_json(sim, random_state.a) = get_stats_json(sim, random_state.b)
    /\ get_creature_data(sim) = get_creature_data(sim)

\* C5 (as claimed): after construction and after every tick every species
\* of population 0 has extinct_tick set, and an extinct_tick that is set is
\* the same after every later tick.
C5_ZeroPopulationExtinctForGood ==
    /\ [](\A id \in SpeciesIds :
            Registry.species[id].population = 0 => is_extinct(Registry.species[id]))
    /\ [][\A id \in SpeciesIds :
            is_extinct(Registry.species[id]) =>
                sim'.species_registry.species[id].extinct_tick
                    = Registry.species[id].extinct_tick]_vars

\* C6: for every species total_born >= total_died and population =
\* total_born - total_died.  A record_death that saturates leaves
\* population > total_born - total_died, and no later record_birth or
\* record_death brings the two back together, so the equation after a tick
\* covers every call made up to then.
C6_PopulationIsBornMinusDied ==
    \A id \in SpeciesIds :
       /\ Registry.species[id].total_born >= Registry.species[id].total_died
       /\ Registry.species[id].population =
            Registry.species[id].total_born - Registry.species[id].total_died

\* C6 witness: a species has had births of construction and of reproduction
\* and deaths, and still has members.
C6_Witness ==
    \E id \in SpeciesIds :
       /\ Registry.species[id].total_died >= 1
       /\ Registry.species[id].total_born >= 4
       /\ Registry.species[id].population >= 1

\* C7: for every tile 0 <= plant_biomass <= max_biomass, after construction
\* and after every tick.
C7_BiomassWithinBounds ==
    \A t \in DOMAIN sim.ecosystems :
       /\ 0 <= sim.ecosystems[t].plant_biomass
       /\ sim.ecosystems[t].plant_biomass <= sim.ecosystems[t].max_biomass

\* C7 witness: two herbivores fed on a tile in a tick and left no plants.
C7_Witness ==
    /\ sim.tick >= 2
    /\ \E t \in DOMAIN sim.ecosystems :
         /\ sim.ecosystems[t].max_biomass > 0
         /\ sim.ecosystems[t].herbivore_count >= 2
         /\ sim.ecosystems[t].plant_biomass = 0

\* The sum of f over the species of the registry
RECURSIVE SumOverSpecies(_, _)
SumOverSpecies(species, field) ==
    IF species = <<>> THEN 0
    ELSE Head(species)[field] + SumOverSpecies(Tail(species), field)

\* C11: at the end of every tick the store holds no dead creature, every
\* creature that left the store was reported to the registry exactly once
\* (births recorded minus deaths recorded is the size of the store), and
\* every stored creature has age <= max_age.
C11_NoDeadStoredAgeBounded ==
    /\ \A i \in DOMAIN sim.creatures : sim.creatures[i].alive
    /\ SumOverSpecies(Registry.species, "total_born")
         - SumOverSpecies(Registry.species, "total_died") = Len(sim.creatures)
    /\ \A i \in DOMAIN sim.creatures : sim.creatures[i].age <= Ph(sim.creatures[i]).max_age

\* C11 witness: a creature reached max_age, was marked dead by its
\* metabolism and swept in the same tick, which its species recorded.
C11_Witness ==
    /\ sim.creatures = <<>>
    /\ \E id \in SpeciesIds :
         /\ Registry.species[id].total_died = 1
         /\ Registry.species[id].extinct_tick = from_genome(HerbOld).max_age

RingTicks == [i \in DOMAIN sim.population_history |-> sim.population_history[i].tick]

\* C16: a snapshot is appended exactly on the ticks divisible by 10 (the
\* ring is empty before tick 10, its last entry is the last such tick and
\* consecutive entries are 10 ticks apart, so strictly increasing); the ring
\* holds at most 500 entries after every tick; the entries missing at the
\* front are a multiple of 100 and none is missing unless the ring would
\* exceed 500 (a trim leaves 401).
C16_SnapshotRing ==
    LET ring == RingTicks IN
    /\ Len(ring) <= 500
    /\ (ring = <<>>) <=> (sim.tick < 10)
    /\ ring # <<>> =>
         /\ ring[Len(ring)] = 10 * (sim.tick \div 10)
         /\ \A i \in 1..(Len(ring) - 1) : ring[i + 1] = ring[i] + 10
         /\ (ring[1] - 10) % 1000 = 0
         /\ ring[1] = 10 \/ Len(ring) >= 401

\* C16 witness: the 501st snapshot was pushed and the ring was trimmed.
C16_Witness ==
    /\ sim.tick >= 5010
    /\ Len(sim.population_history) = 401
    /\ sim.population_history[1].tick = 1010

\* The configuration errors: non-positive dimensions, max_creatures = 0,
\* speciation_threshold outside (0, 1]
InvalidConfig(config) ==
    \/ config.world_width = 0
    \/ config.world_height = 0
    \/ config.max_creatures = 0
    \/ ~(0 < config.speciation_threshold /\ config.speciation_threshold <= 100)

\* C12 (as claimed): Simulation::new yields no simulation when the config
\* has a zero dimension, max_creatures = 0 or a speciation_threshold outside
\* (0, 1].
C12_InvalidConfigRejected ==
    InvalidConfig(probe.config) => ~probe.constructed

\* The last call was a tile query of the ecosystem simulation with a
\* coordinate outside its grid
QueriedOutside ==
    /\ probe.call = "get_tile_info_json"
    /\ (probe.x >= sim.config.world_width \/ probe.y >= sim.config.world_height)

\* The last call was a tile query of the civilization simulation with a
\* coordinate outside its grid
CivQueriedOutside ==
    /\ probe.call = "civ_get_tile_info_json"
    /\ (probe.x >= civ.world.width \/ probe.y >= civ.world.height)

\* C13: a tile query with x >= width or y >= height answers "{}" in both
\* simulators, without a panic and without changing the simulation.
C13_OutOfRangeQueryIsEmpty ==
    /\ [](QueriedOutside \/ CivQueriedOutside => probe.result = EmptyJson)
    /\ [][probe' # probe => sim' = sim /\ civ' = civ]_vars

\* Both kinds of out-of-range query are made on a simulation that has run:
\* here the ecosystem one, just past the last column, after a tick
C13_Witness ==
    /\ QueriedOutside
    /\ probe.x = sim.config.world_width
    /\ probe.y < sim.config.world_height
    /\ sim.tick > 0
    /\ probe.result = EmptyJson

\* ... and the civilization one, past the last row, with a settlement on
\* the map
C13_WitnessCiv ==
    /\ CivQueriedOutside
    /\ probe.y = civ.world.height
    /\ probe.x < civ.world.width
    /\ Len(civ.settlements) > 0
    /\ probe.result = EmptyJson

\* The world has no tile land creatures can live on (all ocean or ice cap).
NoHabitableTile ==
    \A t \in DOMAIN sim.terrain : sim.terrain[t].biome \in {"IceCap", "Ocean"}

\* C14: over a world without a habitable tile the simulation is constructed
\* with an empty creature store and an empty species registry, whatever the
\* configured species and creature counts, and stays so after every tick.
C14_NoHabitableStaysEmpty ==
    NoHabitableTile =>
        /\ sim.creatures = <<>>
        /\ Registry = RegistryNew
        /\ sim.next_creature_id = 1

\* Ticks, one of them a speciation check, have run over an all-ocean world
\* configured with species and creatures to create.
C14_Witness ==
    /\ NoHabitableTile
    /\ sim.tick >= sim.config.speciation_check_interval
    /\ sim.config.initial_herbivore_species > 0
    /\ sim.config.initial_carnivore_species > 0
    /\ sim.config.creatures_per_species > 0

\* A creature of the store that passes can_reproduce and has a partner on
\* its tile: without the cap test the reproduction loop would breed it.
HasBreedingPair(start) ==
    \E i \in DOMAIN start.st.creatures :
        /\ can_reproduce(start.st.creatures[i])
        /\ FirstPartner(start.st.creatures, i,
                        start.spatial_index[<<start.st.creatures[i].y,
                                              start.st.creatures[i].x>>], 1) # 0

\* C15: when the store already holds max_creatures or more creatures at the
\* start of the reproduction phase, the phase ends with the store, the list of
\* new creatures, the registry and the id counter exactly as it found them: no
\* creature is created, no birth is recorded, no parent pays energy or gets a
\* cooldown, and the phase has a result (it does not fail).
C15_CapBlocksReproduction ==
    \A start \in ReproductionStarts(sim) :
        Len(start.st.creatures) >= sim.config.max_creatures =>
            ReproductionPhase(start.st, sim.config, start.spatial_index, 1) = {start.st}

\* The reproduction phase of the next tick starts with a full store that
\* holds a pair ready to breed.
C15_Witness ==
    \E start \in ReproductionStarts(sim) :
        /\ Len(start.st.creatures) >= sim.config.max_creatures
        /\ sim.config.max_creatures > 0
        /\ HasBreedingPair(start)

\* The store positions of the living creatures whose genome lies further than
\* the threshold from the representative genome of their species.
Diverged(start, threshold) ==
    {i \in DOMAIN start.creatures :
        /\ start.creatures[i].alive
        /\ HasSpecies(start.species_registry, start.creatures[i].species_id)
        /\ DistanceAbove(start.creatures[i].genome,
                         start.species_registry.species[start.creatures[i].species_id]
                             .representative_genome,
                         threshold)}

\* C17: a species with an ancestor appears only in a speciation check, so at
\* a tick that is a positive multiple of speciation_check_interval, and its
\* ancestor is an older species of the registry; a check creates exactly one
\* species for every living creature whose genome is further than
\* speciation_threshold from its species' representative genome, in store
\* order, with ancestor_id the species id the creature had when the check
\* began, the creature's genome as representative and the current tick as
\* appeared_tick.
C17_SpeciationCreatesDescendant ==
    /\ \A id \in SpeciesIds :
         LET sp == Registry.species[id] IN
         IF sp.ancestor_id = NoAncestor THEN sp.appeared_tick = 0
         ELSE /\ sp.appeared_tick > 0
              /\ sp.appeared_tick <= sim.tick
              /\ sp.appeared_tick % sim.config.speciation_check_interval = 0
              /\ sp.ancestor_id \in 1..(id - 1)
    /\ \A start \in SpeciationStarts(sim) :
         LET threshold == sim.config.speciation_threshold
             tick == sim.tick + 1
             checked == check_speciation(start.creatures, start.species_registry,
                                         threshold, tick)
             diverged == Diverged(start, threshold)
             first_id == start.species_registry.next_id
         IN /\ checked.species_registry.next_id = first_id + Cardinality(diverged)
            /\ \A i \in diverged :
                 LET sp == checked.species_registry.species[
                               first_id + Cardinality({j \in diverged : j < i})]
                 IN /\ sp.ancestor_id = start.creatures[i].species_id
                    /\ sp.representative_genome = start.creatures[i].genome
                    /\ sp.appeared_tick = tick

\* The speciation check of the tick just run has created two species with an
\* ancestor, the younger one carried by the creature whose genome it
\* represents.
C17_Witness ==
    \E id1, id2 \in SpeciesIds :
        /\ id1 < id2
        /\ \A id \in {id1, id2} :
             /\ Registry.species[id].ancestor_id # NoAncestor
             /\ Registry.species[id].appeared_tick = sim.tick
        /\ \E i \in DOMAIN sim.creatures :
             /\ sim.creatures[i].species_id = id2
             /\ sim.creatures[i].genome = Registry.species[id2].representative_genome

\* The creatures of store s that carry species id.
CarriersOf(s, id) == {i \in DOMAIN s.creatures : s.creatures[i].species_id = id}

\* C18: a species whose extinct_tick is set has population 0 and no creature
\* of the store carries its id; every tick leaves it in the registry under
\* the same id with the same identity, extinct_tick and total_born (nothing
\* is born or reassigned into it); and ids are never handed out twice: the
\* species under key id has that id, next_id lies above every key and never
\* decreases.
C18_ExtinctIsFinal ==
    /\ [](/\ \A id \in SpeciesIds :
               /\ Registry.species[id].id = id
               /\ id < Registry.next_id
               /\ is_extinct(Registry.species[id]) =>
                     /\ Registry.species[id].population = 0
                     /\ CarriersOf(sim, id) = {})
    /\ [][/\ sim'.species_registry.next_id >= Registry.next_id
          /\ \A id \in SpeciesIds :
               is_extinct(Registry.species[id]) =>
                 /\ id \in DOMAIN sim'.species_registry.species
                 /\ sim'.species_registry.species[id] = Registry.species[id]
                 /\ CarriersOf(sim', id) = {}]_vars

\* A species that once had members went extinct in an earlier tick, and since
\* then creatures have been born and a species has been created.
C18_Witness ==
    \E id \in SpeciesIds :
        /\ is_extinct(Registry.species[id])
        /\ Registry.species[id].total_born > 0
        /\ Registry.species[id].extinct_tick < sim.tick
        /\ \E i \in DOMAIN sim.creatures :
             /\ sim.creatures[i].generation > 0
             /\ sim.creatures[i].age < sim.tick - Registry.species[id].extinct_tick
        /\ \E id2 \in SpeciesIds : id2 > id

\* The call moved a living creature standing on x = 0 whose target column is
\* nearer across the seam than along the grid.
MovedLeftAcrossSeam ==
    /\ probe.call = "move_towards_target"
    /\ probe.world_width >= 3
    /\ probe.before.alive
    /\ probe.before.x = 0
    /\ probe.before.target_x # NoTarget
    /\ probe.before.target_y # NoTarget
    /\ 2 * probe.before.target_x > probe.world_width

\* The call measured the two ends (0, y) and (W-1, y) of a row.
MeasuredAcrossSeam ==
    /\ probe.call = "wrapped_distance"
    /\ probe.world_width >= 3
    /\ {probe.x1, probe.x2} = {0, probe.world_width - 1}
    /\ probe.y1 = probe.y2

C19_WitnessMove ==
    /\ MovedLeftAcrossSeam
    /\ probe.before.target_x = probe.world_width - 1
    /\ probe.after.x = probe.world_width - 1

\* The sum of the populations of the settlements a nation lists
ListedPopulation(c, nation) ==
    SumSeq([k \in DOMAIN nation.settlements |->
               IF nation.settlements[k] \in DOMAIN c.settlements
               THEN c.settlements[nation.settlements[k]].population
               ELSE 0])

NationTotalsAgree(c) ==
    \A id \in DOMAIN c.nations :
        c.nations[id].total_population = ListedPopulation(c, c.nations[id])

CultureCountsAgree(c) ==
    \A id \in DOMAIN c.cultures :
        c.cultures[id].population =
            PopulationOf(c.settlements,
                         {s \in DOMAIN c.settlements :
                             c.settlements[s].primary_culture_id = id})

ReligionCountsAgree(c) ==
    \A id \in DOMAIN c.religions :
        c.religions[id].follower_count =
            PopulationOf(c.settlements,
                         {s \in DOMAIN c.settlements :
                             c.settlements[s].primary_religion_id = id})

GlobalTotalAgrees(c) ==
    c.total_population = PopulationOf(c.settlements, DOMAIN c.settlements)

\* A tick of the civilization simulation has ended
AfterCivTick == civ # NoCivilization /\ civ.current_year > START_YEAR

PathAltitude(r, i) == AltitudeAt(r.world, r.path[i][1], r.path[i][2])

\* The altitudes of the four neighbours of the i-th tile of the trace
NeighborAltitudes(r, i) ==
    { LET n == RiverNeighbor(r.world, r.path[i][1], r.path[i][2], k)
      IN AltitudeAt(r.world, n[1], n[2]) : k \in DOMAIN RiverOffsets }

\* The trace may go on from its i-th tile: land with a strictly lower neighbour
FlowsOn(r, i) ==
    /\ PathAltitude(r, i) > 0
    /\ \E a \in NeighborAltitudes(r, i) : a < PathAltitude(r, i)

\* C21: a river trace ends within 200 steps, descends strictly (so it never
\* returns to a tile), moves at each step to a lowest of the four wrapped /
\* clamped neighbours, marks is_river only on tiles above sea level, and
\* stops at the first tile at or below sea level or without a strictly lower
\* neighbour (or at the step cap).
C21_RiverDescends ==
    /\ [](river # NoRiver =>
            /\ river.steps <= MaxRiverSteps
            /\ Len(river.path) = river.steps + 1
            /\ river.path[Len(river.path)] = <<river.x, river.y>>
            /\ \A i \in 1..(Len(river.path) - 1) :
                  /\ PathAltitude(river, i + 1) < PathAltitude(river, i)
                  /\ \E k \in DOMAIN RiverOffsets :
                        river.path[i + 1] =
                            RiverNeighbor(river.world, river.path[i][1], river.path[i][2], k)
                  /\ \A a \in NeighborAltitudes(river, i) : PathAltitude(river, i + 1) <= a
                  /\ FlowsOn(river, i)
            /\ \A i, j \in DOMAIN river.path : i # j => river.path[i] # river.path[j]
            /\ \A t \in river.marked : AltitudeAt(river.world, t[1], t[2]) > 0
            /\ river.marked \subseteq SeqRange(river.path)
            /\ (river.ended =>
                  \/ ~FlowsOn(river, Len(river.path))
                  \/ river.steps = MaxRiverSteps))
    /\ [][river # NoRiver /\ ~river'.ended => river'.steps = river.steps + 1]_vars

\* A trace that crossed the seam of the world and ended in the sea ...
C21_Witness ==
    /\ river # NoRiver
    /\ river.ended
    /\ river.steps > 1
    /\ AltitudeAt(river.world, river.x, river.y) <= 0
    /\ \E i \in 1..(Len(river.path) - 1) :
          river.path[i][1] = 0 /\ river.path[i + 1][1] = river.world.width - 1

\* ... one that ended on land in a hollow after a step ...
C21_WitnessHollow ==
    /\ river # NoRiver
    /\ river.ended
    /\ river.steps >= 1
    /\ AltitudeAt(river.world, river.x, river.y) > 0
    /\ river.steps < MaxRiverSteps

\* ... and one that the step cap ended on land above a lower tile
C21_WitnessCap ==
    /\ river # NoRiver
    /\ river.ended
    /\ river.steps = MaxRiverSteps
    /\ FlowsOn(river, Len(river.path))

(***************************************************************************)
(* C22: hunt attempts per hunter and tick.                                 *)
(***************************************************************************)
\* The calls of hunt in a run whose hunter has the given id
CallsOf(run, id) == {k \in DOMAIN run.calls : run.calls[k].hunter = id}

\* C22: in the hunting phase of a tick every living creature with diet >= 0.2
\* makes at most one call of hunt, whether or not the call succeeds.
C22_OneAttemptPerHunter ==
    \A run \in HuntRuns(sim) :
        \A i \in DOMAIN run.start.creatures :
            Cardinality(CallsOf(run, run.start.creatures[i].id)) <= 1


(***************************************************************************)
(* C23: kills of the hunting phase.                                        *)
(***************************************************************************)
\* The calls of a run that ended in a kill
KillCalls(run) == {k \in DOMAIN run.calls : run.calls[k].killed}

\* The store positions of the creatures a run killed
KilledIn(run) ==
    {i \in DOMAIN run.creatures : run.start.creatures[i].alive /\ ~run.creatures[i].alive}

\* The sum of the increments of the kills counters over a run
KillsGained(run) ==
    SumSeq([i \in DOMAIN run.creatures |->
              run.creatures[i].kills - run.start.creatures[i].kills])

\* C23: in the hunting phase of a tick each hunter kills at most one prey, no
\* creature hunts itself, no dead creature hunts or is hunted, each prey is
\* killed at most once, and the kills counters grow in sum by the number of
\* creatures killed; stated of the hunting phase of every tick the runs take.
C23_OneKillPerHunter ==
    sim.tick < MaxHuntTick =>
    /\ \A run \in HuntRuns(sim) :
          /\ \A k \in DOMAIN run.calls :
                /\ run.calls[k].hunter # run.calls[k].prey
                /\ run.calls[k].hunter_alive
                /\ run.calls[k].prey_alive
          /\ \A k1, k2 \in KillCalls(run) :
                k1 # k2 => /\ run.calls[k1].hunter # run.calls[k2].hunter
                           /\ run.calls[k1].prey # run.calls[k2].prey
          /\ Cardinality(KillCalls(run)) = Cardinality(KilledIn(run))
          /\ KillsGained(run) = Cardinality(KilledIn(run))
    /\ \A start \in HuntStarts(sim) :
          {run.creatures : run \in HuntingPhaseCalls(start.creatures, start.spatial_index,
                                                     1, <<>>)}
            = HuntingPhase(start.creatures, start.spatial_index, 1)

\* Two of three carnivores were killed in one tick: the first hunter killed
\* and was killed after it by the last.
C23_Witness ==
    /\ sim.tick = 1
    /\ sim.config.creatures_per_species = 3
    /\ Len(sim.creatures) = 1
    /\ sim.creatures[1].kills = 1
    /\ sim.creatures[1].id = 3

\* A hunter that failed on its first prey and killed the second
C23_WitnessSecondPrey ==
    /\ sim.tick = 1
    /\ \E i \in DOMAIN sim.creatures :
          /\ sim.creatures[i].kills = 1
          /\ sim.creatures[i].health < 100000


(***************************************************************************)
(* C24: no exhausted creature survives a tick.                             *)
(***************************************************************************)
\* C24: at the end of every tick each stored creature is alive, below its
\* maximum age and has energy > 0 and health > 0.
C24_ExhaustedCreaturesRemoved ==
    sim.tick > 0 =>
        \A i \in DOMAIN sim.creatures :
            /\ sim.creatures[i].alive
            /\ sim.creatures[i].age < Ph(sim.creatures[i]).max_age
            /\ sim.creatures[i].energy > 0
            /\ sim.creatures[i].health > 0


(***************************************************************************)
(* C25: the range of health.                                               *)
(***************************************************************************)
\* Health within [0, 1]
HealthInRange(c) == c.health >= 0 /\ c.health <= 100000

CounterOf(reg, id, field) ==
    IF id \in DOMAIN reg.species THEN reg.species[id][field] ELSE 0

\* The sum of a counter over all species of a registry
CounterSum(reg, field) ==
    SumSeq([id \in DOMAIN reg.species |-> reg.species[id][field]])

\* The speciation check of the next tick, when it is due, changes nothing of
\* the stored creatures but their species ids and keeps the sum of the
\* populations; the reassignments add as much to total_born as to
\* total_died, in sum at least one per creature that changed species, and
\* each species' population changes by its births less its deaths and counts
\* the creatures that carry its id afterwards.
SpeciationKeepsCreatures ==
    \A start \in SpeciationStarts(sim) :
        LET checked == check_speciation(start.creatures, start.species_registry,
                                        sim.config.speciation_threshold, sim.tick + 1)
            before == start.species_registry
            after == checked.species_registry
            changed == {i \in DOMAIN start.creatures :
                          checked.creatures[i].species_id # start.creatures[i].species_id}
            born == CounterSum(after, "total_born") - CounterSum(before, "total_born")
            died == CounterSum(after, "total_died") - CounterSum(before, "total_died")
        IN /\ Len(checked.creatures) = Len(start.creatures)
           /\ \A i \in DOMAIN start.creatures :
                 checked.creatures[i] =
                   [start.creatures[i] EXCEPT !.species_id = checked.creatures[i].species_id]
           /\ CounterSum(after, "population") = CounterSum(before, "population")
           /\ born = died
           /\ born >= Cardinality(changed)
           /\ \A id \in DOMAIN after.species :
                 /\ CounterOf(after, id, "population") - CounterOf(before, id, "population")
                      = (CounterOf(after, id, "total_born") - CounterOf(before, id, "total_born"))
                        - (CounterOf(after, id, "total_died") - CounterOf(before, id, "total_died"))
                 /\ CounterOf(after, id, "population")
                      = Cardinality({i \in DOMAIN checked.creatures :
                                       checked.creatures[i].species_id = id})

\* C26: a speciation check never creates or removes a creature; it keeps the
\* number of creatures and the sum of the populations, and every
\* reassignment takes one from the population of the species left and adds
\* one to the species joined, total_died and total_born growing by one each.
C26_SpeciationKeepsCreatures == []SpeciationKeepsCreatures

\* The speciation check of the tick just run moved two creatures into one
\* new species: the creature that diverged and one near it.
C26_Witness ==
    \E id \in DOMAIN sim.species_registry.species :
        LET sp == sim.species_registry.species[id] IN
        /\ sp.ancestor_id # NoAncestor
        /\ sp.appeared_tick = sim.tick
        /\ sp.total_born >= 2
        /\ sim.species_registry.species[sp.ancestor_id].total_died >= 2

\* A creature was reassigned twice in one check: a species created by the
\* check of the tick just run has lost a creature again.
C26_WitnessTwice ==
    \E id \in DOMAIN sim.species_registry.species :
        LET sp == sim.species_registry.species[id] IN
        /\ sp.ancestor_id # NoAncestor
        /\ sp.appeared_tick = sim.tick
        /\ sp.total_died >= 1


(***************************************************************************)
(* C27: the order of the phases and who takes part in them.                *)
(***************************************************************************)
\* The store positions of the living creatures of a list on tile t
LivingOn(creatures, t) ==
    {i \in DOMAIN creatures : creatures[i].alive /\ <<creatures[i].x, creatures[i].y>> = t}

\* A creature as Creature::new leaves it, untouched by any phase
Untouched(c) ==
    c = CreatureNew(c.id, c.species_id, c.genome, c.x, c.y, c.generation)

\* The phases of the next tick, run in the order growth, movement with stress
\* and metabolism, index rebuild, counting, feeding, hunting, reproduction,
\* leave what one call of tick leaves before its sweep; a creature dead after
\* metabolism is not counted and is left as it is by feeding, hunting and
\* reproduction, a creature killed by a predator is left as it is by
\* reproduction, and the creatures born are not in the store while the
\* phases run.
PhasesInOrder ==
    LET runs == PhaseRuns(sim) IN
    /\ { FinishTick(sim, sim.tick + 1, run.fed.ecosystems, run.spatial_index, run.bred)
          : run \in runs } = TickResults(sim)
    /\ \A run \in runs :
          /\ \A t \in DOMAIN sim.ecosystems :
                CountPhase(GrowthPhase(sim.ecosystems), run.moved, 1)[t].creature_count
                  = Cardinality(LivingOn(run.moved, t))
          /\ Len(run.moved) = Len(sim.creatures)
          /\ Len(run.bred.creatures) = Len(sim.creatures)
          /\ \A i \in DOMAIN run.moved :
                /\ ~run.moved[i].alive =>
                      /\ run.fed.creatures[i] = run.moved[i]
                      /\ run.hunted[i] = run.moved[i]
                      /\ run.bred.creatures[i] = run.moved[i]
                /\ ~run.hunted[i].alive => run.bred.creatures[i] = run.hunted[i]
          /\ \A k \in DOMAIN run.bred.new_creatures :
                /\ Untouched(run.bred.new_creatures[k])
                /\ run.bred.new_creatures[k].id >= sim.next_creature_id

\* The creatures born in a step are stored as Creature::new left them.
BornUntouched ==
    \A i \in DOMAIN sim'.creatures :
        sim'.creatures[i].id >= sim.next_creature_id => Untouched(sim'.creatures[i])

\* C27: the phases of a tick run in the fixed order; a creature marked dead
\* takes no further part in the tick, and a creature born in a tick does
\* not move, feed, hunt or reproduce before the next tick.
C27_PhaseOrder ==
    /\ [](sim.tick < MaxTick => PhasesInOrder)
    /\ [][BornUntouched]_vars

\* A tick in which creatures were born and their parents paid for them
C27_Witness ==
    /\ sim.tick > 0
    /\ \E i, j \in DOMAIN sim.creatures :
          /\ sim.creatures[i].age = 0
          /\ sim.creatures[j].children_produced > 0
          /\ sim.creatures[j].reproduction_cooldown = 15 + (Ph(sim.creatures[j]).max_age \div 10)

\* A state whose next tick kills a creature by metabolism on a tile where
\* another one lives on
C27_WitnessDeath ==
    \E run \in PhaseRuns(sim) :
        \E i, j \in DOMAIN run.moved :
            /\ ~run.moved[i].alive
            /\ run.moved[j].alive
            /\ run.moved[i].x = run.moved[j].x
            /\ run.moved[i].y = run.moved[j].y


(***************************************************************************)
(* C28: the spatial index where it is read.                                *)
(***************************************************************************)
\* Every position the index lists under <<y, x>> is a position of the store
\* holding a creature on tile (x, y)
IndexFits(spatial_index, creatures) ==
    \A key \in DOMAIN spatial_index :
        \A k \in DOMAIN spatial_index[key] :
            LET idx == spatial_index[key][k] IN
            /\ idx \in DOMAIN creatures
            /\ creatures[idx].y = key[1]
            /\ creatures[idx].x = key[2]

\* The index the hunting and the reproduction loops of the next tick read is
\* the one built after the movement of that tick; each position it lists
\* under (y, x) is a position of the store, as the loops find it, of a
\* creature on tile (x, y) that was alive when the index was built, and the
\* store keeps its length and its order until the reproduction loop is over.
IndexValidWhereRead ==
    \A run \in PhaseRuns(sim) :
        /\ run.spatial_index = rebuild_spatial_index(sim.config, run.moved)
        /\ IndexFits(run.spatial_index, run.fed.creatures)
        /\ IndexFits(run.spatial_index, run.hunted)
        /\ IndexFits(run.spatial_index, run.bred.creatures)
        /\ \A key \in DOMAIN run.spatial_index :
              \A k \in DOMAIN run.spatial_index[key] :
                  run.moved[run.spatial_index[key][k]].alive
        /\ \A i \in DOMAIN run.moved :
              /\ run.fed.creatures[i].id = run.moved[i].id
              /\ run.hunted[i].id = run.moved[i].id
              /\ run.bred.creatures[i].id = run.moved[i].id

\* C28: whenever the hunting or the reproduction phase of a tick reads the
\* spatial index, every position stored under (y, x) is a valid position of
\* the store holding a creature on tile (x, y) that was alive when the index
\* was built; the index is read only before the death sweep.
C28_IndexValidWhereRead == [](sim.tick < MaxTick => IndexValidWhereRead)

\* The reproduction loop of the next tick reads an index that lists a
\* creature a predator has killed since the index was built.
C28_Witness ==
    /\ sim.tick > 0
    /\ sim.tick < MaxTick
    /\ \E run \in PhaseRuns(sim) :
        \E key \in DOMAIN run.spatial_index :
            \E k \in DOMAIN run.spatial_index[key] :
                ~run.hunted[run.spatial_index[key][k]].alive

\* After a tick the index kept in the simulation lists a position the sweep
\* has removed from the store.
C28_WitnessStale ==
    /\ sim.tick > 0
    /\ ~IndexFits(sim.spatial_index, sim.creatures)


(***************************************************************************)
(* C29: reproduction events.                                               *)
(***************************************************************************)
\* C29: every reproduction event of a tick pairs two distinct creatures that
\* are alive, on the same tile, of the same species and both able to
\* reproduce; it gives 1 to 4 children on the parents' tile, of the parents'
\* species and one generation after the first parent, and records one birth
\* per child in that species and none elsewhere.
C29_ReproductionEvents ==
    sim.tick < MaxHerdTick =>
    /\ \A start \in ReproductionStarts(sim) :
          {run.st : run \in ReproductionPhaseEvents(start.st, sim.config,
                                                   start.spatial_index, 1, <<>>)}
            = ReproductionPhase(start.st, sim.config, start.spatial_index, 1)
    /\ \A run \in ReproductionRuns(sim) :
          \A k \in DOMAIN run.events :
              LET e == run.events[k] IN
              /\ e.i # e.partner_idx
              /\ e.parent_a.id # e.parent_b.id
              /\ e.parent_a.alive /\ e.parent_b.alive
              /\ e.parent_a.x = e.parent_b.x /\ e.parent_a.y = e.parent_b.y
              /\ e.parent_a.species_id = e.parent_b.species_id
              /\ can_reproduce(e.parent_a) /\ can_reproduce(e.parent_b)
              /\ Len(e.offspring) \in 1..4
              /\ \A n \in DOMAIN e.offspring :
                    /\ e.offspring[n].x = e.parent_a.x
                    /\ e.offspring[n].y = e.parent_a.y
                    /\ e.offspring[n].species_id = e.parent_a.species_id
                    /\ e.offspring[n].generation = e.parent_a.generation + 1
                    /\ e.offspring[n].alive
              /\ DOMAIN e.registry_after.species = DOMAIN e.registry_before.species
              /\ \A id \in DOMAIN e.registry_after.species :
                    CounterOf(e.registry_after, id, "total_born")
                      - CounterOf(e.registry_before, id, "total_born")
                    = IF id = e.parent_a.species_id THEN Len(e.offspring) ELSE 0

\* A tick in which two creatures of one species had children: the children
\* are stored with generation 1 and the species counts them as born.
C29_Witness ==
    /\ sim.tick > 0
    /\ \E i, j, n \in DOMAIN sim.creatures :
          /\ i # j
          /\ sim.creatures[i].children_produced > 0
          /\ sim.creatures[j].children_produced > 0
          /\ sim.creatures[i].species_id = sim.creatures[j].species_id
          /\ sim.creatures[n].generation = 1
          /\ sim.creatures[n].species_id = sim.creatures[i].species_id
          /\ sim.species_registry.species[sim.creatures[i].species_id].total_born
               > sim.config.creatures_per_species

\* Two creatures of different species on one tile, both able to reproduce:
\* the next tick has no event.
C29_WitnessOtherSpecies ==
    \E start \in ReproductionStarts(sim) :
        /\ \E i, j \in DOMAIN start.st.creatures :
              /\ i # j
              /\ can_reproduce(start.st.creatures[i])
              /\ can_reproduce(start.st.creatures[j])
              /\ start.st.creatures[i].species_id # start.st.creatures[j].species_id
        /\ \A run \in ReproductionPhaseEvents(start.st, sim.config,
                                               start.spatial_index, 1, <<>>) :
              run.events = <<>>


(***************************************************************************)
(* C30: one reproduction event per creature and the cooldown.              *)
(***************************************************************************)
\* The cooldown Creature::reproduce starts: 15 + max_age / 10
FullCooldown(c) == 15 + (Ph(c).max_age \div 10)

\* The ids of the two parents of an event
ParentsOf(e) == {e.parent_a.id, e.parent_b.id}

\* No creature is a parent in two events of the next tick, and both parents
\* of an event leave it with the full cooldown.
OneEventPerCreature ==
    \A run \in ReproductionRuns(sim) :
        /\ \A k1, k2 \in DOMAIN run.events :
              k1 # k2 => ParentsOf(run.events[k1]) \cap ParentsOf(run.events[k2]) = {}
        /\ \A k \in DOMAIN run.events :
              LET e == run.events[k] IN
              /\ e.parent_a.reproduction_cooldown = 0
              /\ e.parent_b.reproduction_cooldown = 0
              /\ run.st.creatures[e.i].reproduction_cooldown = FullCooldown(e.parent_a)
              /\ run.st.creatures[e.partner_idx].reproduction_cooldown
                   = FullCooldown(e.parent_b)

\* The cooldown of a stored creature is at most the full one, and is running
\* only on a creature that has had children.
CooldownBounded ==
    \A i \in DOMAIN sim.creatures :
        LET c == sim.creatures[i] IN
        /\ c.reproduction_cooldown >= 0
        /\ c.reproduction_cooldown <= FullCooldown(c)
        /\ c.reproduction_cooldown > 0 => c.children_produced > 0

\* Over a step a running cooldown falls by exactly one and its creature has
\* no children; a creature has children only when its cooldown was at most
\* 1 before the step, and then holds the full cooldown after it.
CooldownCounts ==
    \A i \in DOMAIN sim.creatures :
        \A j \in DOMAIN sim'.creatures :
            sim'.creatures[j].id = sim.creatures[i].id =>
                LET c == sim.creatures[i]
                    d == sim'.creatures[j]
                IN /\ c.reproduction_cooldown > 1 =>
                        /\ d.reproduction_cooldown = c.reproduction_cooldown - 1
                        /\ d.children_produced = c.children_produced
                   /\ d.children_produced # c.children_produced =>
                        /\ c.reproduction_cooldown <= 1
                        /\ d.reproduction_cooldown = FullCooldown(c)
                        /\ d.children_produced > c.children_produced

\* C30: a creature takes part in at most one reproduction event per tick,
\* and after an event of tick t in none before tick t + 15 + max_age / 10:
\* the event starts a cooldown of that length, which falls by one per tick
\* and bars the creature from every event while it is running.
C30_OneEventThenCooldown ==
    /\ [](sim.tick < MaxHerdTick => OneEventPerCreature)
    /\ []CooldownBounded
    /\ [][CooldownCounts]_vars

\* Two ticks after an event: a parent's cooldown has fallen by two.
C30_Witness ==
    \E i \in DOMAIN sim.creatures :
        /\ sim.creatures[i].children_produced > 0
        /\ sim.creatures[i].reproduction_cooldown = FullCooldown(sim.creatures[i]) - 2

\* In the next tick a creature that can reproduce finds on its tile only
\* creatures of its species whose sole bar is the running cooldown, and no
\* event takes place.
C30_WitnessBarred ==
    \E start \in ReproductionStarts(sim) :
        /\ \E i, j \in DOMAIN start.st.creatures :
              LET c == start.st.creatures[i]
                  o == start.st.creatures[j]
              IN /\ i # j
                 /\ can_reproduce(c)
                 /\ o.species_id = c.species_id
                 /\ o.x = c.x /\ o.y = c.y
                 /\ o.alive
                 /\ o.energy > Ph(o).fertility_threshold
                 /\ o.age > 10
                 /\ o.reproduction_cooldown > 0
        /\ \A run \in ReproductionPhaseEvents(start.st, sim.config,
                                               start.spatial_index, 1, <<>>) :
              run.events = <<>>

(***************************************************************************)
(* C31: creature ids                                                       *)
(***************************************************************************)
\* The store is ordered by strictly increasing id and every id handed out
\* lies below next_creature_id
IdsOrdered ==
    /\ \A i \in 1..Len(sim.creatures) : sim.creatures[i].id < sim.next_creature_id
    /\ \A i \in 1..(Len(sim.creatures) - 1) :
          sim.creatures[i].id < sim.creatures[i + 1].id

\* A step hands out only ids at or above the old next_creature_id, each one
\* below the new next_creature_id, and never lowers next_creature_id
IdsFresh ==
    /\ sim'.next_creature_id >= sim.next_creature_id
    /\ \A j \in 1..Len(sim'.creatures) :
          \/ \E i \in 1..Len(sim.creatures) : sim.creatures[i].id = sim'.creatures[j].id
          \/ /\ sim'.creatures[j].id >= sim.next_creature_id
             /\ sim'.creatures[j].id < sim'.next_creature_id

\* C31: creature ids are unique over the whole run and monotonic: the store is
\* ordered by strictly increasing id at the end of every tick, every stored id
\* lies below next_creature_id, and a tick gives the creatures it creates ids
\* at or above the old next_creature_id, above every id handed out before,
\* whether its holder still lives or was removed.
C31_IdsUniqueMonotonic == []IdsOrdered /\ [][IdsFresh]_vars

\* A creature born in a tick holds the last id handed out and is stored behind
\* the initial creatures
C31_Witness ==
    /\ sim.tick > 0
    /\ sim.creatures[1].generation = 0
    /\ \E j \in 2..Len(sim.creatures) :
          /\ sim.creatures[j].generation > 0
          /\ sim.creatures[j].id = sim.next_creature_id - 1

\* Two children of one reproduction event are stored side by side with
\* consecutive ids
C31_WitnessSiblings ==
    \E j \in 1..(Len(sim.creatures) - 1) :
        /\ sim.creatures[j].generation > 0
        /\ sim.creatures[j + 1].generation > 0
        /\ sim.creatures[j + 1].id = sim.creatures[j].id + 1

(***************************************************************************)
(* C32: the timeline query                                                 *)
(***************************************************************************)
\* The years a client asks about: the recorded years and one on each side
QueryYears == 0..3

\* The timeline of [y1, y2] holds each log position of a year in the range
\* once, ordered by year and within a year by position
TimelineExact(y1, y2) ==
    LET timeline == get_timeline(history, y1, y2)
        held == {i \in 0..(Len(history.events) - 1) :
                    /\ year(history.events[i + 1]) >= y1
                    /\ year(history.events[i + 1]) <= y2}
    IN /\ {timeline[k] : k \in 1..Len(timeline)} = held
       /\ Len(timeline) = Cardinality(held)
       /\ \A k \in 1..(Len(timeline) - 1) :
             LET a == history.events[timeline[k] + 1]
                 b == history.events[timeline[k + 1] + 1]
             IN \/ year(a) < year(b)
                \/ year(a) = year(b) /\ timeline[k] < timeline[k + 1]

\* C32: after any sequence of record calls, prunings included,
\* get_timeline(y1, y2) returns exactly the events held in the log whose year
\* lies in [y1, y2], each once, in non-decreasing year order and in recording
\* order within a year; get_events_in_year(y) returns the events of
\* get_timeline(y, y).
C32_TimelineExact ==
    /\ \A y1 \in QueryYears, y2 \in QueryYears : TimelineExact(y1, y2)
    /\ \A y \in Years :
          LET timeline == get_timeline(history, y, y)
          IN get_events_in_year(history, y)
               = [k \in 1..Len(timeline) |-> history.events[timeline[k] + 1]]

\* After a pruning the log holds an event of year 2 recorded before an event
\* of year 1, so the timeline of both years is not the log order
C32_Witness ==
    /\ hist_pruned
    /\ Len(get_timeline(history, 1, 2)) >= 2
    /\ \E i \in 1..Len(history.events) : \E j \in (i + 1)..Len(history.events) :
          /\ year(history.events[i]) = 2
          /\ year(history.events[j]) = 1

\* A year holds two events, recorded with an event of the other year between
C32_WitnessSameYear ==
    \E i \in 1..(Len(history.events) - 2) :
        /\ year(history.events[i]) = year(history.events[i + 2])
        /\ year(history.events[i]) # year(history.events[i + 1])

(***************************************************************************)
(* C33: species created by a speciation check                              *)
(***************************************************************************)
\* The species the speciation check of the tick just taken has created
CreatedThisCheck ==
    {id \in SpeciesIds : /\ Registry.species[id].ancestor_id # NoAncestor
                         /\ Registry.species[id].appeared_tick = sim.tick}

\* C33: at the end of every speciation check, every species created during
\* that check has population >= 1 and is not extinct: no species has
\* extinct_tick equal to its own appeared_tick.
C33_NewSpeciesPopulated ==
    \A id \in CreatedThisCheck :
        /\ Registry.species[id].population >= 1
        /\ Registry.species[id].extinct_tick # Registry.species[id].appeared_tick

\* C33 counterexample: a species created by the check of this tick has lost
\* every member within the same check and carries extinct_tick = appeared_tick
C33_EmptiedWithinCheck ==
    \E id \in CreatedThisCheck :
        /\ Registry.species[id].population = 0
        /\ Registry.species[id].extinct_tick = Registry.species[id].appeared_tick

(***************************************************************************)
(* C34: the life of a nation founded in a tick                             *)
(***************************************************************************)
\* The nations the step has founded
FoundedInStep == (DOMAIN civ'.nations) \ (DOMAIN civ.nations)

\* Every nation founded in the step lives at its end, and no dead nation
\* lives again
FoundedNationLives ==
    (civ # NoCivilization /\ civ' # NoCivilization) =>
        /\ \A id \in FoundedInStep : civ'.nations[id].is_alive
        /\ \A id \in DOMAIN civ.nations :
              ~civ.nations[id].is_alive => ~civ'.nations[id].is_alive

C34_FoundedDead ==
    /\ civ # NoCivilization
    /\ \E id \in DOMAIN civ.nations :
          /\ ~civ.nations[id].is_alive
          /\ civ.nations[id].capital_id \in DOMAIN civ.settlements
          /\ civ.settlements[civ.nations[id].capital_id].population > 500
          /\ civ.nations[id].total_population > 500
          /\ civ.nations[id].controlled_tiles # {}

(***************************************************************************)
(* C35: one settlement per tile                                            *)
(***************************************************************************)
\* C35: at the end of every tick no two settlements are located on the same
\* tile, and for every settlement the tile at its coordinates has
\* settlement_id equal to that settlement's id.
C35_OneSettlementPerTile ==
    civ # NoCivilization =>
        /\ \A i, j \in DOMAIN civ.settlements :
              i # j => <<civ.settlements[i].x, civ.settlements[i].y>>
                         # <<civ.settlements[j].x, civ.settlements[j].y>>
        /\ \A i \in DOMAIN civ.settlements :
              get_tile(civ.world, civ.settlements[i].x, civ.settlements[i].y).settlement_id = i

\* C35 counterexample: two settlements founded in the same tick stand on one
\* tile, and the tile names the later one only
C35_TwoOnOneTile ==
    /\ civ # NoCivilization
    /\ civ.current_year > START_YEAR
    /\ \E i, j \in DOMAIN civ.settlements :
          /\ i < j
          /\ civ.settlements[i].x = civ.settlements[j].x
          /\ civ.settlements[i].y = civ.settlements[j].y
          /\ get_tile(civ.world, civ.settlements[i].x, civ.settlements[i].y).settlement_id = j

(***************************************************************************)
(* C36: tile ownership                                                     *)
(***************************************************************************)
\* The coordinates of the tiles of the world
TileCoordinates(world) ==
    {<<x, y>> : x \in 0..(world.width - 1), y \in 0..(world.height - 1)}

C36_CapitalUnowned ==
    /\ civ # NoCivilization
    /\ \E n \in DOMAIN civ.nations :
          /\ civ.nations[n].capital \in civ.nations[n].controlled_tiles
          /\ get_tile(civ.world, civ.nations[n].capital[1],
                      civ.nations[n].capital[2]).owner_nation_id = NoId

\* C36 counterexample: a living nation has claimed the capital tile of a
\* nation founded in the same tick, and both control the tile
C36_TileOfTwoNations ==
    /\ civ # NoCivilization
    /\ \E n, k \in DOMAIN civ.nations :
          /\ n # k
          /\ civ.nations[n].is_alive
          /\ civ.nations[k].capital \in civ.nations[n].controlled_tiles
          /\ civ.nations[k].capital \in civ.nations[k].controlled_tiles
          /\ get_tile(civ.world, civ.nations[k].capital[1],
                      civ.nations[k].capital[2]).owner_nation_id = n

(***************************************************************************)
(* C37: the research state                                                 *)
(***************************************************************************)
\* The cost at which add_research_points completes a technology, in tenths
CostOf(tech_id) ==
    TechTreeNew[tech_id].research_cost * research_modifier(TechTreeNew[tech_id].era)

\* The researched set is closed under prerequisites and the technology being
\* researched is not in it
ResearchClosed ==
    /\ \A id \in research.researched_technologies :
          /\ id \in DOMAIN TechTreeNew
          /\ TechTreeNew[id].prerequisites \subseteq research.researched_technologies
    /\ research.current_research \notin research.researched_technologies

\* A call adds to the researched set at most the technology being
\* researched, and only when the progress made on it since it was started,
\* with the points of the call, reaches its cost; the progress on a
\* technology grows by the points handed in and starts at 0
CompletedAtCost ==
    LET points == research'.accumulated_research_points
                    - research.accumulated_research_points
    IN /\ research.researched_technologies \subseteq research'.researched_technologies
       /\ \A id \in research'.researched_technologies \ research.researched_technologies :
             /\ research.current_research = id
             /\ research.research_progress + points >= CostOf(id)
       /\ research'.research_progress <= research.research_progress + points
       /\ research'.current_research # research.current_research
             => research'.research_progress = 0

\* C37: after any sequence of start_research and add_research_points calls
\* the set of researched technologies is closed under prerequisites,
\* current_research is never an already researched technology, and a
\* technology is added to the researched set only when the accumulated
\* progress on it reaches its cost.
C37_ResearchSound == []ResearchClosed /\ [][CompletedAtCost]_vars

\* Bronze Working has been researched after both of its prerequisites, and
\* the era has moved on
C37_Witness ==
    /\ research # NoResearch
    /\ {1, 2, 100} \subseteq research.researched_technologies
    /\ research.current_era = BronzeAge

\* Hunting is being researched, part of its cost is paid, and Fire Making is
\* still open
C37_WitnessUnderWay ==
    /\ research # NoResearch
    /\ research.current_research = 3
    /\ research.research_progress > 0
    /\ research.research_progress < CostOf(3)
    /\ research.researched_technologies = {2}

(***************************************************************************)
(* C38: creature coordinates                                               *)
(***************************************************************************)
\* The column and the row are those of a tile of the world
OnWorld(x, y) ==
    /\ 0 <= x /\ x < sim.config.world_width
    /\ 0 <= y /\ y < sim.config.world_height
    /\ <<x, y>> \in DOMAIN sim.terrain
    /\ <<x, y>> \in DOMAIN sim.ecosystems

\* C38: after construction and after every tick, the coordinates of every
\* creature are those of a tile of the world, and so is every movement
\* target a creature holds, so the terrain and ecosystem lookups by creature
\* position stay in range.
C38_CreaturesOnWorld ==
    \A i \in 1..Len(sim.creatures) :
        LET c == sim.creatures[i]
        IN /\ OnWorld(c.x, c.y)
           /\ (c.target_x = NoTarget) <=> (c.target_y = NoTarget)
           /\ c.target_x # NoTarget => OnWorld(c.target_x, c.target_y)

\* A creature in the last column holds a target in the first one, across
\* the seam, after a tick
C38_Witness ==
    /\ sim.tick > 0
    /\ \E i \in 1..Len(sim.creatures) :
          /\ sim.creatures[i].x = sim.config.world_width - 1
          /\ sim.creatures[i].target_x = 0
          /\ sim.creatures[i].target_y # sim.creatures[i].y

\* A creature stands on the sea tile, which is not habitable
C38_WitnessSea ==
    /\ sim.tick > 0
    /\ \E i \in 1..Len(sim.creatures) :
          /\ sim.terrain[<<sim.creatures[i].x, sim.creatures[i].y>>].biome = "Ocean"
          /\ sim.creatures[i].alive

(***************************************************************************)
(* C39: the war relation                                                   *)
(***************************************************************************)
\* Each side of a war names the other, and no nation is at war with itself
WarSymmetric(nations) ==
    \A a, b \in DOMAIN nations :
        /\ (b \in nations[a].at_war_with) <=> (a \in nations[b].at_war_with)
        /\ a \notin nations[a].at_war_with

\* The warring pairs, the smaller id first
WarringPairs(nations) ==
    {p \in (DOMAIN nations) \X (DOMAIN nations) :
        p[1] < p[2] /\ p[2] \in nations[p[1]].at_war_with}

\* A list without a repeated entry
NoRepeat(list) ==
    \A i, j \in 1..Len(list) : i # j => list[i] # list[j]

\* What one call of process_diplomacy does to the war relation of c
DiplomacySound(c, run) ==
    /\ WarSymmetric(run.after_declarations)
    /\ WarSymmetric(run.c.nations)
    /\ NoRepeat([k \in 1..Len(run.declared) |->
                    WarPair(run.declared[k][1], run.declared[k][2])])
    /\ \A k \in 1..Len(run.declared) :
          LET a == run.declared[k][1]
              b == run.declared[k][2]
          IN /\ a # b
             /\ c.nations[a].is_alive /\ c.nations[b].is_alive
             /\ b \notin c.nations[a].at_war_with
             /\ a \notin c.nations[b].at_war_with
             /\ b \in run.after_declarations[a].at_war_with
             /\ a \in run.after_declarations[b].at_war_with
    /\ WarringPairs(run.after_declarations)
         = WarringPairs(c.nations)
             \cup {WarPair(run.declared[k][1], run.declared[k][2])
                   : k \in 1..Len(run.declared)}
    /\ NoRepeat(run.ended)
    /\ SeqRange(run.ended) \subseteq WarringPairs(run.after_declarations)
    /\ WarringPairs(run.c.nations)
         = WarringPairs(run.after_declarations) \ SeqRange(run.ended)

\* C39: the war relation is symmetric after every diplomacy and
\* war-resolution step; war is declared only between two nations not already
\* at war with each other, peace removes the pair from both sides, and
\* get_wars lists each warring pair exactly once.
C39_WarSymmetric ==
    civ # NoCivilization =>
        /\ WarSymmetric(civ.nations)
        /\ \A wars \in get_wars(civ.nations) :
              /\ NoRepeat(wars)
              /\ SeqRange(wars) = WarringPairs(civ.nations)
        /\ \A run \in DiplomacyRuns(civ) : DiplomacySound(civ, run)

\* After a tick nations 1 and 3 are at war and nations 1 and 2 are not: a
\* war has been declared and, in the runs that began with nations 1 and 2 at
\* war, a peace made
C39_Witness ==
    /\ civ # NoCivilization
    /\ civ.current_year > START_YEAR
    /\ Len(civ.nations) = 3
    /\ civ.nations[1].at_war_with = {3}
    /\ civ.nations[3].at_war_with = {1}
    /\ civ.nations[2].at_war_with = {}

\* Every nation is at war with both others: get_wars walks six entries and
\* lists three pairs
C39_WitnessAllAtWar ==
    /\ civ # NoCivilization
    /\ civ.current_year > START_YEAR
    /\ Len(civ.nations) = 3
    /\ \A a \in 1..3 : civ.nations[a].at_war_with = (1..3) \ {a}

====
